---- MODULE Spec2Model ----
(***************************************************************************)
(* A model of python-shinkansen's signing and verification engine          *)
(* (shinkansen/jws.py) and of the identity guard built on it               *)
(* (shinkansen/responses.py).                                              *)
(*                                                                         *)
(* Cryptography is symbolic: a private key is identified with its public   *)
(* numbers, and a signature is the record of who signed what under which   *)
(* algorithm; it verifies exactly under that key, algorithm and input.     *)
(* Texts that the code encodes and decodes (base64, base64url) carry the   *)
(* form they were written in, so that decoding is not the inverse of       *)
(* encoding on every text: a text may decode to the same bytes as the      *)
(* canonical one ("alt": unused trailing bits, padding) or not decode at   *)
(* all ("bad").                                                            *)
(***************************************************************************)
EXTENDS Naturals, Sequences, FiniteSets, TLC

VARIABLES pc, signCall, wire, verifyCall, message, respCall, built, written, loaded,
          compared, outbound, calls

vars == <<pc, signCall, wire, verifyCall, message, respCall, built, written, loaded,
          compared, outbound, calls>>
\* The state of a signature on its way, and the state of a message that is
\* built, written and read back.
jwsVars == <<signCall, wire, verifyCall, message, respCall>>
msgVars == <<built, written, loaded>>
\* The last comparison of two values, the message on its way to the API, and
\* the calls in progress in the threads of the process.
extVars == <<compared, outbound, calls>>

(***************************************************************************)
(* Bounds of the model.                                                    *)
(***************************************************************************)
NKeys == 2
NSerials == 2

Keys == 1..NKeys
Serials == 1..NSerials
\* x509 certificates: the public key they carry and what else tells two
\* certificates of the same key apart (new_certificate draws a random serial).
Certs == [pub : Keys, serial : Serials]
Payloads == {"test", "modifiedtest"}
Algs == {"PS256", "RS256"}

(***************************************************************************)
(* Exceptions.  The first three are defined by shinkansen.jws; the others  *)
(* are raised by the libraries it calls and pass through uncaught.         *)
(***************************************************************************)
InvalidJWS == "shinkansen.jws.InvalidJWS"
CertificateNotWhitelisted == "shinkansen.jws.CertificateNotWhitelisted"
KeyMismatch == "shinkansen.jws.KeyMismatch"
InvalidJWSObject == "jwcrypto.jws.InvalidJWSObject"
InvalidJWSSignature == "jwcrypto.jws.InvalidJWSSignature"
BinasciiError == "binascii.Error"
ValueError == "ValueError"
AttributeError == "AttributeError"
NoError == "none"

\* The exception classes deriving from common.ShinkansenException.
ShinkansenException == {InvalidJWS, CertificateNotWhitelisted, KeyMismatch,
                        "shinkansen.responses.UnexpectedSender",
                        "shinkansen.responses.UnexpectedReceiver"}

\* The names shinkansen/jws.py binds at module level (imports, classes,
\* functions) and the exception class each exception name is bound to.
JwsModuleNames == {"JWK", "JWS", "b64encode", "b64decode", "serialization",
                   "rsa", "x509", "ShinkansenException", "json",
                   "InvalidJWS", "CertificateNotWhitelisted", "KeyMismatch",
                   "_der", "_b64der", "_x5c_first", "_cert_and_key_match",
                   "sign", "verify_detached", "private_key_from_pem_file",
                   "private_key_from_pem_bytes", "certificate_from_pem_file",
                   "certificate_from_pem_bytes", "main"}

\* getattr(shinkansen.jws, name) for an exception name: the class, or the
\* AttributeError python raises for a name the module does not bind.
JwsModuleAttr(name) ==
    IF name \notin JwsModuleNames THEN AttributeError
    ELSE CASE name = "InvalidJWS" -> InvalidJWS
           [] name = "CertificateNotWhitelisted" -> CertificateNotWhitelisted
           [] name = "KeyMismatch" -> KeyMismatch
           [] OTHER -> "not an exception class"

(***************************************************************************)
(* Bytes and texts.                                                        *)
(***************************************************************************)
JunkDer == [k |-> "junk", pub |-> 0, serial |-> 0]

\* certificate.public_bytes(DER): every field of the certificate is in it.
_der(certificate) ==
    [k |-> "cert", pub |-> certificate.pub, serial |-> certificate.serial]

\* base64.b64encode / jwcrypto's base64url_encode: the canonical text.
b64encode(data) == [form |-> "canon", data |-> data]
base64url_encode(data) == [form |-> "canon", data |-> data]

\* base64.b64decode / jwcrypto's base64url_decode: a text in any decodable
\* form yields its bytes; an undecodable one raises.
b64decode(text) ==
    IF text.form = "bad" THEN [err |-> BinasciiError, val |-> JunkDer]
    ELSE [err |-> NoError, val |-> text.data]

_b64der(certificate) == b64encode(_der(certificate))

\* x509.load_der_x509_certificate
load_der_x509_certificate(der) ==
    IF der.k = "cert"
    THEN [err |-> NoError, val |-> [pub |-> der.pub, serial |-> der.serial]]
    ELSE [err |-> ValueError, val |-> [pub |-> 0, serial |-> 0]]

\* The entries an x5c array can hold: the base64 of a certificate, a base64
\* text that is no certificate, a text that is no base64.  The arrays: empty,
\* one entry, or an entry followed by a certificate.
X5cEntries == {_b64der(c) : c \in Certs}
              \cup {[form |-> "canon", data |-> JunkDer],
                    [form |-> "bad", data |-> JunkDer]}
X5cLists == {<<>>} \cup {<<e>> : e \in X5cEntries}
            \cup {<<e1, _b64der(c2)>> : e1 \in X5cEntries, c2 \in Certs}

\* Protected headers (JSON objects).  has_x5c tells a header without the
\* field from one whose array is empty.
Header(alg, has_x5c, x5c) ==
    [k |-> "hdr", alg |-> alg, b64 |-> FALSE, crit |-> <<"b64">>,
     has_x5c |-> has_x5c, x5c |-> x5c]
Headers == {Header(a, TRUE, l) : a \in Algs, l \in X5cLists}
           \cup {Header(a, FALSE, <<>>) : a \in Algs}
EmptyBytes == [k |-> "empty"]
NotJson == [k |-> "notjson"]
EmptyDict == [k |-> "dict", alg |-> "", b64 |-> TRUE, crit |-> <<>>,
              has_x5c |-> FALSE, x5c |-> <<>>]

\* Signature bytes.  RSA-PSS over `input` by private key `signer`.
JunkSig == [k |-> "junk"]
Signature(signer, alg, input) ==
    [k |-> "sig", signer |-> signer, alg |-> alg, input |-> input]
SigningInput(protected, payload) ==
    [protected |-> protected, payload |-> payload]

\* Segments of a compact serialization, and the empty middle segment of a
\* detached one.
EmptySegment == base64url_encode(EmptyBytes)
JunkSegment == [form |-> "bad", data |-> EmptyBytes]
NoJws == <<>>

(***************************************************************************)
(* jwcrypto, as far as jws.py uses it.                                     *)
(***************************************************************************)
NoObject == [protected |-> EmptyBytes, signature |-> JunkSig]

\* JWS.deserialize of a compact serialization given as its '.'-separated
\* segments: three segments, each base64url, the first a JSON object or
\* empty.  Every failure is an InvalidJWSObject.
JWS_deserialize(raw) ==
    IF Len(raw) # 3 THEN [err |-> InvalidJWSObject, obj |-> NoObject]
    ELSE IF raw[1].form = "bad" \/ raw[1].data = NotJson
              \/ raw[3].form = "bad" \/ raw[2].form = "bad"
         THEN [err |-> InvalidJWSObject, obj |-> NoObject]
         ELSE [err |-> NoError,
               obj |-> [protected |-> raw[1].data, signature |-> raw[3].data]]

\* JWS.jose_header: the decoded protected header, an empty dict without one.
JWS_jose_header(obj) ==
    IF obj.protected = EmptyBytes THEN EmptyDict ELSE obj.protected

\* JWS.add_signature + serialize: the signature over
\* base64url(protected) || "." || payload, the payload taken as it is (b64
\* is false).
JWS_add_signature(payload, key, protected) ==
    [protected |-> base64url_encode(protected),
     signature |-> base64url_encode(
         Signature(key, protected.alg,
                   SigningInput(base64url_encode(protected), payload)))]

\* JWS.verify(jwk, alg, detached_payload): the header's alg must be the one
\* allowed, and the signature must be one by the key over the signing input
\* rebuilt from the decoded protected header.  Every failure is an
\* InvalidJWSSignature.
JWS_verify(obj, pub, alg, detached_payload) ==
    LET header == JWS_jose_header(obj)
        sig == obj.signature
    IN IF /\ header.alg = alg
          /\ sig.k = "sig"
          /\ sig.alg = alg
          /\ sig.signer = pub
          /\ sig.input = SigningInput(base64url_encode(obj.protected),
                                      detached_payload)
       THEN NoError
       ELSE InvalidJWSSignature

(***************************************************************************)
(* shinkansen/jws.py                                                       *)
(***************************************************************************)
\* _x5c_first taking the last certificate of the chain instead of the first.
_x5c_first_takes_last(header) ==
    IF ~header.has_x5c THEN [err |-> InvalidJWS, val |-> JunkSegment]
    ELSE IF header.x5c = <<>> THEN [err |-> InvalidJWS, val |-> JunkSegment]
    ELSE [err |-> NoError, val |-> header.x5c[Len(header.x5c)]]

\* _x5c_first without the test for an empty array: x5c[0] raises IndexError.
_x5c_first_unchecked_empty(header) ==
    IF ~header.has_x5c THEN [err |-> InvalidJWS, val |-> JunkSegment]
    ELSE IF header.x5c = <<>> THEN [err |-> "IndexError", val |-> JunkSegment]
    ELSE [err |-> NoError, val |-> header.x5c[1]]

_x5c_first(header) ==
    IF ~header.has_x5c THEN [err |-> InvalidJWS, val |-> JunkSegment]
    ELSE IF header.x5c = <<>> THEN [err |-> InvalidJWS, val |-> JunkSegment]
    ELSE [err |-> NoError, val |-> header.x5c[1]]

\* _cert_and_key_match comparing the certificate's key with itself.
_cert_and_key_match_self(certificate, key) == certificate.pub = certificate.pub

_cert_and_key_match(certificate, key) == certificate.pub = key

\* sign: the outcome, the detached JWS returned and the steps performed.
sign(payload, key, certificate) ==
    IF ~_cert_and_key_match(certificate, key)
    THEN [err |-> KeyMismatch, value |-> NoJws,
          steps |-> <<"_cert_and_key_match">>]
    ELSE LET parsed_jws ==
                 JWS_add_signature(payload, key,
                     Header("PS256", TRUE, <<_b64der(certificate)>>))
         IN [err |-> NoError,
             value |-> <<parsed_jws.protected, EmptySegment,
                         parsed_jws.signature>>,
             steps |-> <<"_cert_and_key_match", "add_signature",
                         "serialize">>]

\* The whitelist test with == for !=.
NotInWhitelist_inverted(x5c_first_der, certificate_whitelist) ==
    \A i \in 1..Len(certificate_whitelist) :
        _der(certificate_whitelist[i]) = x5c_first_der

\* The whitelist test comparing public keys instead of DER bytes.
NotInWhitelist_by_public_key(x5c_first_der, certificate_whitelist) ==
    \A i \in 1..Len(certificate_whitelist) :
        certificate_whitelist[i].pub # x5c_first_der.pub

\* all(_der(c) != x5c_first_der for c in certificate_whitelist)
NotInWhitelist(x5c_first_der, certificate_whitelist) ==
    \A i \in 1..Len(certificate_whitelist) :
        _der(certificate_whitelist[i]) # x5c_first_der

\* verify_detached comparing with the whitelist before verifying.
verify_detached_whitelist_first(payload, detached_jws, certificate_whitelist) ==
    LET d == JWS_deserialize(detached_jws) IN
    IF d.err # NoError
    THEN [err |-> d.err, steps |-> <<"deserialize">>]
    ELSE
    LET x == _x5c_first(JWS_jose_header(d.obj)) IN
    IF x.err # NoError
    THEN [err |-> x.err, steps |-> <<"deserialize", "_x5c_first">>]
    ELSE
    LET der == b64decode(x.val) IN
    IF der.err # NoError
    THEN [err |-> der.err, steps |-> <<"deserialize", "_x5c_first",
                                       "b64decode">>]
    ELSE
    LET certificate == load_der_x509_certificate(der.val) IN
    IF certificate.err # NoError
    THEN [err |-> certificate.err,
          steps |-> <<"deserialize", "_x5c_first", "b64decode",
                      "load_der_x509_certificate">>]
    ELSE
    IF NotInWhitelist(der.val, certificate_whitelist)
    THEN [err |-> CertificateNotWhitelisted,
          steps |-> <<"deserialize", "_x5c_first", "b64decode",
                      "load_der_x509_certificate", "whitelist">>]
    ELSE [err |-> JWS_verify(d.obj, certificate.val.pub, "PS256", payload),
          steps |-> <<"deserialize", "_x5c_first", "b64decode",
                      "load_der_x509_certificate", "whitelist", "verify">>]

\* verify_detached without the call of jws.verify.
verify_detached_unverified(payload, detached_jws, certificate_whitelist) ==
    LET d == JWS_deserialize(detached_jws) IN
    IF d.err # NoError
    THEN [err |-> d.err, steps |-> <<"deserialize">>]
    ELSE
    LET x == _x5c_first(JWS_jose_header(d.obj)) IN
    IF x.err # NoError
    THEN [err |-> x.err, steps |-> <<"deserialize", "_x5c_first">>]
    ELSE
    LET der == b64decode(x.val) IN
    IF der.err # NoError
    THEN [err |-> der.err, steps |-> <<"deserialize", "_x5c_first",
                                       "b64decode">>]
    ELSE
    LET certificate == load_der_x509_certificate(der.val) IN
    IF certificate.err # NoError
    THEN [err |-> certificate.err,
          steps |-> <<"deserialize", "_x5c_first", "b64decode",
                      "load_der_x509_certificate">>]
    ELSE [err |-> IF NotInWhitelist(der.val, certificate_whitelist)
                  THEN CertificateNotWhitelisted ELSE NoError,
          steps |-> <<"deserialize", "_x5c_first", "b64decode",
                      "load_der_x509_certificate", "whitelist">>]

\* verify_detached calling jws.verify(jwk, detached_payload=payload) without
\* alg: the algorithm is the one the protected header names.
verify_detached_any_alg(payload, detached_jws, certificate_whitelist) ==
    LET d == JWS_deserialize(detached_jws) IN
    IF d.err # NoError
    THEN [err |-> d.err, steps |-> <<"deserialize">>]
    ELSE
    LET x == _x5c_first(JWS_jose_header(d.obj)) IN
    IF x.err # NoError
    THEN [err |-> x.err, steps |-> <<"deserialize", "_x5c_first">>]
    ELSE
    LET der == b64decode(x.val) IN
    IF der.err # NoError
    THEN [err |-> der.err, steps |-> <<"deserialize", "_x5c_first",
                                       "b64decode">>]
    ELSE
    LET certificate == load_der_x509_certificate(der.val) IN
    IF certificate.err # NoError
    THEN [err |-> certificate.err,
          steps |-> <<"deserialize", "_x5c_first", "b64decode",
                      "load_der_x509_certificate">>]
    ELSE
    LET v == JWS_verify(d.obj, certificate.val.pub, JWS_jose_header(d.obj).alg, payload) IN
    IF v # NoError
    THEN [err |-> v,
          steps |-> <<"deserialize", "_x5c_first", "b64decode",
                      "load_der_x509_certificate", "verify">>]
    ELSE [err |-> IF NotInWhitelist(der.val, certificate_whitelist)
                  THEN CertificateNotWhitelisted ELSE NoError,
          steps |-> <<"deserialize", "_x5c_first", "b64decode",
                      "load_der_x509_certificate", "verify", "whitelist">>]

\* verify_detached: the outcome ("none": it returns) and the steps started.
verify_detached(payload, detached_jws, certificate_whitelist) ==
    LET d == JWS_deserialize(detached_jws) IN
    IF d.err # NoError
    THEN [err |-> d.err, steps |-> <<"deserialize">>]
    ELSE
    LET x == _x5c_first(JWS_jose_header(d.obj)) IN
    IF x.err # NoError
    THEN [err |-> x.err, steps |-> <<"deserialize", "_x5c_first">>]
    ELSE
    LET der == b64decode(x.val) IN
    IF der.err # NoError
    THEN [err |-> der.err, steps |-> <<"deserialize", "_x5c_first",
                                       "b64decode">>]
    ELSE
    LET certificate == load_der_x509_certificate(der.val) IN
    IF certificate.err # NoError
    THEN [err |-> certificate.err,
          steps |-> <<"deserialize", "_x5c_first", "b64decode",
                      "load_der_x509_certificate">>]
    ELSE
    LET v == JWS_verify(d.obj, certificate.val.pub, "PS256", payload) IN
    IF v # NoError
    THEN [err |-> v,
          steps |-> <<"deserialize", "_x5c_first", "b64decode",
                      "load_der_x509_certificate", "verify">>]
    ELSE [err |-> IF NotInWhitelist(der.val, certificate_whitelist)
                  THEN CertificateNotWhitelisted ELSE NoError,
          steps |-> <<"deserialize", "_x5c_first", "b64decode",
                      "load_der_x509_certificate", "verify", "whitelist">>]

(***************************************************************************)
(* What travels between a signer and a verifier.                           *)
(***************************************************************************)
\* The lists a caller may pass as certificate_whitelist: no certificate, one,
\* or two different ones (in one order: the code reads the list with all()).
CertBefore(c1, c2) ==
    c1.pub < c2.pub \/ (c1.pub = c2.pub /\ c1.serial < c2.serial)
Whitelists == {<<>>} \cup {<<c>> : c \in Certs}
              \cup {<<cc[1], cc[2]>> : cc \in {x \in Certs \X Certs : CertBefore(x[1], x[2])}}

ReplaceFirst(list, e) == [i \in 1..Len(list) |-> IF i = 1 THEN e ELSE list[i]]
OtherAlg(header) == [header EXCEPT !.alg = IF @ = "PS256" THEN "RS256" ELSE "PS256"]

\* The strings that differ in one byte from a detached JWS returned by sign,
\* each with the place of the byte and what the change does to the text.
OneByteMutations(jws) ==
    LET prot == jws[1]
        sig == jws[3]
        hdr == prot.data
    IN {[class |-> "separator", jws |-> <<JunkSegment, sig>>],
        [class |-> "segment_split", jws |-> <<prot, EmptySegment, JunkSegment, JunkSegment>>],
        [class |-> "protected_same_bytes", jws |-> <<[prot EXCEPT !.form = "alt"], EmptySegment, sig>>],
        [class |-> "protected_undecodable", jws |-> <<[prot EXCEPT !.form = "bad"], EmptySegment, sig>>],
        [class |-> "protected_not_json", jws |-> <<[prot EXCEPT !.data = NotJson], EmptySegment, sig>>],
        [class |-> "protected_alg", jws |-> <<[prot EXCEPT !.data = OtherAlg(hdr)], EmptySegment, sig>>],
        [class |-> "signature_same_bytes", jws |-> <<prot, EmptySegment, [sig EXCEPT !.form = "alt"]>>],
        [class |-> "signature_undecodable", jws |-> <<prot, EmptySegment, [sig EXCEPT !.form = "bad"]>>],
        [class |-> "signature_bytes", jws |-> <<prot, EmptySegment, [sig EXCEPT !.data = JunkSig]>>]}
       \cup {[class |-> "protected_x5c",
              jws |-> <<[prot EXCEPT !.data = [hdr EXCEPT !.x5c = ReplaceFirst(hdr.x5c, e)]],
                        EmptySegment, sig>>] : e \in X5cEntries \ {hdr.x5c[1]}}

\* The signature bytes someone holding any of the keys can put under a
\* protected header: a signature by one of the keys, under either algorithm,
\* over a payload and that header or another one; or bytes that are no
\* signature.
ForgedSignatures(header) ==
    {JunkSig} \cup
    {Signature(k, a, SigningInput(base64url_encode(h2), p2)) :
        k \in Keys, a \in Algs, p2 \in Payloads, h2 \in {header, OtherAlg(header)}}

\* The detached JWS strings such a party can build.
ForgedJws ==
    {<<JunkSegment>>, <<JunkSegment, JunkSegment>>,
     <<JunkSegment, EmptySegment, JunkSegment>>,
     <<JunkSegment, EmptySegment, JunkSegment, JunkSegment>>}
    \cup {<<[form |-> f, data |-> h], EmptySegment, [form |-> "canon", data |-> JunkSig]>> :
            f \in {"canon", "alt"}, h \in {NotJson, EmptyBytes}}
    \cup UNION {
           {<<[form |-> f, data |-> h], EmptySegment, [form |-> "bad", data |-> JunkSig]>> :
               f \in {"canon", "alt"}}
           \cup {<<[form |-> fg[1], data |-> h], EmptySegment, [form |-> fg[2], data |-> s]>> :
                   fg \in {<<"canon", "canon">>, <<"alt", "canon">>, <<"canon", "alt">>},
                   s \in ForgedSignatures(h)}
           : h \in Headers}

(***************************************************************************)
(* The state: the last call of sign, the payload and detached JWS handed   *)
(* to the verifier, and the last call of verify_detached.                  *)
(***************************************************************************)
NoCert == [pub |-> 0, serial |-> 0]
NoSign == [payload |-> "", key |-> 0, certificate |-> NoCert,
           out |-> [err |-> NoError, value |-> NoJws, steps |-> <<>>]]
NoWire == [payload |-> "", jws |-> NoJws, origin |-> "none"]
NoVerify == [whitelist |-> <<>>, out |-> [err |-> NoError, steps |-> <<>>]]
NoMessage == [k |-> "none"]
NoResp == [k |-> "none"]
NoBuilt == [kind |-> "none", args |-> <<>>, obj |-> [k |-> "NoneType"]]
NoText == [form |-> "none", doc |-> <<>>]
NoParsed == [err |-> NoError, val |-> [k |-> "NoneType"]]
NoCompared == [k |-> "none"]
NoOutbound == [k |-> "none"]
NoCalls == <<>>

Init ==
    /\ pc = "start"
    /\ signCall = NoSign
    /\ wire = NoWire
    /\ verifyCall = NoVerify
    /\ message = NoMessage
    /\ respCall = NoResp
    /\ built = NoBuilt
    /\ written = NoText
    /\ loaded = NoParsed
    /\ compared = NoCompared
    /\ outbound = NoOutbound
    /\ calls = NoCalls

\* jws.sign(payload, key, certificate)
Sign ==
    /\ pc = "start"
    /\ \E payload \in Payloads, key \in Keys, certificate \in Certs :
          signCall' = [payload |-> payload, key |-> key, certificate |-> certificate,
                       out |-> sign(payload, key, certificate)]
    /\ pc' = "signed"
    /\ UNCHANGED <<msgVars, extVars, wire, verifyCall, message, respCall>>

\* The payload and the signature reach the verifier as they were signed.
Deliver ==
    /\ pc = "signed"
    /\ signCall.out.err = NoError
    /\ wire' = [payload |-> signCall.payload, jws |-> signCall.out.value,
                origin |-> "signed"]
    /\ pc' = "delivered"
    /\ UNCHANGED <<msgVars, extVars, signCall, verifyCall, message, respCall>>

\* The payload is changed after signing.
TamperPayload ==
    /\ pc = "signed"
    /\ signCall.out.err = NoError
    /\ \E p \in Payloads \ {signCall.payload} :
          wire' = [payload |-> p, jws |-> signCall.out.value,
                   origin |-> "payload_changed"]
    /\ pc' = "delivered"
    /\ UNCHANGED <<msgVars, extVars, signCall, verifyCall, message, respCall>>

\* One byte of the signature string is changed after signing.
TamperSignature ==
    /\ pc = "signed"
    /\ signCall.out.err = NoError
    /\ \E m \in OneByteMutations(signCall.out.value) :
          wire' = [payload |-> signCall.payload, jws |-> m.jws, origin |-> m.class]
    /\ pc' = "delivered"
    /\ UNCHANGED <<msgVars, extVars, signCall, verifyCall, message, respCall>>

\* The verifier is handed a payload and a string built without sign.
Forge ==
    /\ pc = "start"
    /\ \E p \in Payloads, j \in ForgedJws :
          wire' = [payload |-> p, jws |-> j, origin |-> "forged"]
    /\ pc' = "delivered"
    /\ UNCHANGED <<msgVars, extVars, signCall, verifyCall, message, respCall>>

\* jws.verify_detached(payload, detached_jws, certificate_whitelist)
Verify ==
    /\ pc = "delivered"
    /\ \E wl \in Whitelists :
          verifyCall' = [whitelist |-> wl,
                         out |-> verify_detached(wire.payload, wire.jws, wl)]
    /\ pc' = "verified"
    /\ UNCHANGED <<msgVars, extVars, signCall, wire, message, respCall>>

Next == Sign \/ Deliver \/ TamperPayload \/ TamperSignature \/ Forge \/ Verify

Spec == Init /\ [][Next]_vars

(***************************************************************************)
(* shinkansen/common.py and shinkansen/responses.py: parties, headers,     *)
(* response messages and their verification.                               *)
(***************************************************************************)
PyNone == "<None>"
UnexpectedSender == "shinkansen.responses.UnexpectedSender"
UnexpectedReceiver == "shinkansen.responses.UnexpectedReceiver"

\* None where an object or a dict is expected, and the JSON object {}.
NoneObj == [k |-> "NoneType"]
EmptyJsonObject == <<>>
KeyError == "KeyError"
TypeError == "TypeError"

\* The truth value python gives a dict or None: `x and y` is x for None and
\* for {}.
Truthy(d) == d # NoneObj /\ DOMAIN d # {}

\* d.get(key), where a string and where an object is expected.
dict_get(d, key) == IF key \in DOMAIN d THEN d[key] ELSE PyNone
dict_get_obj(d, key) == IF key \in DOMAIN d THEN d[key] ELSE NoneObj

\* The error of d[key] for the keys given: None is not subscriptable, and a
\* dict without one of the keys raises KeyError.
Subscript_err(d, keys) ==
    IF d = NoneObj THEN TypeError
    ELSE IF ~(keys \subseteq DOMAIN d) THEN KeyError
    ELSE NoError

\* The first error of a sequence of outcomes.
FirstError(errs) ==
    IF \A i \in 1..Len(errs) : errs[i] = NoError THEN NoError
    ELSE errs[CHOOSE i \in 1..Len(errs) :
                 /\ errs[i] # NoError
                 /\ \A j \in 1..(i - 1) : errs[j] = NoError]

\* FinancialInstitution.__init__: fin_id_schema or "SHINKANSEN"
FinancialInstitution(fin_id, fin_id_schema) ==
    [k |-> "FinancialInstitution", fin_id |-> fin_id,
     fin_id_schema |-> IF fin_id_schema \in {PyNone, ""} THEN "SHINKANSEN"
                       ELSE fin_id_schema]

\* FinancialInstitution.__eq__ comparing fin_id alone.
FinancialInstitution_eq_fin_id_only(self, o) ==
    IF o.k = "FinancialInstitution" THEN self.fin_id = o.fin_id ELSE FALSE

\* FinancialInstitution.__eq__ comparing fin_id_schema alone.
FinancialInstitution_eq_schema_only(self, o) ==
    IF o.k = "FinancialInstitution" THEN self.fin_id_schema = o.fin_id_schema ELSE FALSE

\* FinancialInstitution.__eq__
FinancialInstitution_eq(self, o) ==
    IF o.k = "FinancialInstitution"
    THEN self.fin_id = o.fin_id /\ self.fin_id_schema = o.fin_id_schema
    ELSE FALSE

\* a != b, which python derives from __eq__
FinancialInstitution_ne(self, o) == ~FinancialInstitution_eq(self, o)

\* MessageHeader.__init__ that never keeps the message_id it is given.
MessageHeader_always_fresh(sender, receiver, message_id, creation_date, fresh) ==
    [sender |-> sender, receiver |-> receiver, message_id |-> fresh.uuid,
     creation_date |-> IF creation_date \in {PyNone, ""} THEN fresh.now
                       ELSE creation_date]

\* MessageHeader.__init__; fresh holds what random_uuid() and
\* now_as_isoformat() would return at this call.
MessageHeader(sender, receiver, message_id, creation_date, fresh) ==
    [sender |-> sender, receiver |-> receiver,
     message_id |-> IF message_id \in {PyNone, ""} THEN fresh.uuid ELSE message_id,
     creation_date |-> IF creation_date \in {PyNone, ""} THEN fresh.now
                       ELSE creation_date]

\* The error of MessageHeader.from_json_dict and of the header part of
\* PayoutMessage.from_json: the subscripts they take.
Header_subscript_err(h) ==
    FirstError(<<Subscript_err(h, {"sender", "receiver", "message_id", "creation_date"}),
                 IF Subscript_err(h, {"sender"}) = NoError
                 THEN Subscript_err(h["sender"], {"fin_id_schema", "fin_id"})
                 ELSE NoError,
                 IF Subscript_err(h, {"receiver"}) = NoError
                 THEN Subscript_err(h["receiver"], {"fin_id_schema", "fin_id"})
                 ELSE NoError>>)

\* MessageHeader.from_json_dict
MessageHeader_from_json_dict(json_dict, fresh) ==
    MessageHeader(
        FinancialInstitution(json_dict.sender.fin_id, json_dict.sender.fin_id_schema),
        FinancialInstitution(json_dict.receiver.fin_id, json_dict.receiver.fin_id_schema),
        json_dict.message_id, json_dict.creation_date, fresh)

\* JSON texts: the document a text holds and the way it is written.  A text
\* off the wire and the text json.dumps writes for the same document differ.
JsonText(doc) == [form |-> "wire", doc |-> doc]
json_loads(json_string) == json_string.doc

\* The error json.loads raises for a text that is no JSON.
JsonDecodeError == "json.decoder.JSONDecodeError"
json_loads_err(json_string) ==
    IF json_string.form = "notjson" THEN JsonDecodeError ELSE NoError

\* The first error of json.loads(json_string)["document"]["header"], of the
\* subscripts that build the header, and of ["document"][list_key], in the
\* order the from_json methods take them.
Envelope_err(json_string, list_key) ==
    IF json_loads_err(json_string) # NoError THEN json_loads_err(json_string)
    ELSE IF Subscript_err(json_loads(json_string), {"document"}) # NoError
    THEN Subscript_err(json_loads(json_string), {"document"})
    ELSE LET doc == json_loads(json_string)["document"] IN
         IF Subscript_err(doc, {"header"}) # NoError
         THEN Subscript_err(doc, {"header"})
         ELSE IF Header_subscript_err(doc["header"]) # NoError
         THEN Header_subscript_err(doc["header"])
         ELSE Subscript_err(doc, {list_key})

\* Response._transaction_type_to_class after the module is loaded, and the
\* classes for_transaction_type gave a _transaction_type (Response itself
\* has none).
_transaction_type_to_class == [payout |-> "PayoutResponse"]
_transaction_type == [PayoutResponse |-> "payout"]

NoResponse == [class |-> "none"]

\* Response.__init__(**json_dict) of class cls: the six required arguments
\* are bound (a missing one is a TypeError, an unknown one is ignored), the
\* base fields are stored, response_id or a fresh one; then the class's
\* _transaction_type is read, and taken when the dict gives no transaction
\* type.
Response_init(cls, json_dict, fresh) ==
    IF ~({"transaction_id", "shinkansen_transaction_id",
          "shinkansen_transaction_status", "shinkansen_transaction_message",
          "response_status", "response_message"} \subseteq DOMAIN json_dict)
    THEN [err |-> TypeError, val |-> NoResponse]
    ELSE IF cls \notin DOMAIN _transaction_type
    THEN [err |-> AttributeError, val |-> NoResponse]
    ELSE IF dict_get(json_dict, "transaction_type")
                \notin {PyNone, "", _transaction_type[cls]}
    THEN [err |-> "AssertionError", val |-> NoResponse]
    ELSE
    [err |-> NoError,
     val |-> [class |-> cls,
              transaction_id |-> json_dict["transaction_id"],
              shinkansen_transaction_id |-> json_dict["shinkansen_transaction_id"],
              shinkansen_transaction_status |-> json_dict["shinkansen_transaction_status"],
              shinkansen_transaction_message |-> json_dict["shinkansen_transaction_message"],
              response_status |-> json_dict["response_status"],
              response_message |-> json_dict["response_message"],
              transaction_type |-> _transaction_type[cls],
              response_id |-> IF dict_get(json_dict, "response_id") \in {PyNone, ""}
                              THEN fresh.uuid ELSE json_dict["response_id"]]]

\* Response.from_json_dict with the dict's response_id dropped.
Response_from_json_dict_new_id(json_dict, fresh) ==
    Response_init(
        IF /\ "transaction_type" \in DOMAIN json_dict
           /\ json_dict["transaction_type"] \in DOMAIN _transaction_type_to_class
        THEN _transaction_type_to_class[json_dict["transaction_type"]]
        ELSE "Response",
        [key \in DOMAIN json_dict \ {"response_id"} |-> json_dict[key]], fresh)

\* Response.from_json_dict
Response_from_json_dict(json_dict, fresh) ==
    Response_init(
        IF /\ "transaction_type" \in DOMAIN json_dict
           /\ json_dict["transaction_type"] \in DOMAIN _transaction_type_to_class
        THEN _transaction_type_to_class[json_dict["transaction_type"]]
        ELSE "Response",
        json_dict, fresh)

NoParsedMessage == [k |-> "none"]

\* ResponseMessage.from_json: the message, or the first error raised.
ResponseMessage_from_json(json_string, fresh) ==
    LET json_dict == json_loads(json_string)
        parsed == [i \in 1..Len(json_dict.document.responses) |->
                      Response_from_json_dict(json_dict.document.responses[i], fresh)]
        failed == {i \in 1..Len(parsed) : parsed[i].err # NoError}
    IN IF Envelope_err(json_string, "responses") # NoError
       THEN [err |-> Envelope_err(json_string, "responses"), val |-> NoParsedMessage]
       ELSE IF failed # {}
       THEN [err |-> parsed[CHOOSE i \in failed : \A j \in failed : i <= j].err,
             val |-> NoParsedMessage]
       ELSE [err |-> NoError,
             val |-> [header |-> MessageHeader_from_json_dict(
                                     json_dict.document.header, fresh),
                      responses |-> [i \in 1..Len(parsed) |-> parsed[i].val],
                      original_json |-> json_string]]

\* o.__dict__ of a FinancialInstitution, a MessageHeader and a Response.
FinancialInstitution_dict(o) == [fin_id |-> o.fin_id, fin_id_schema |-> o.fin_id_schema]
MessageHeader_dict(o) ==
    [sender |-> FinancialInstitution_dict(o.sender),
     receiver |-> FinancialInstitution_dict(o.receiver),
     message_id |-> o.message_id, creation_date |-> o.creation_date]
Response_dict(o) ==
    [transaction_id |-> o.transaction_id,
     shinkansen_transaction_id |-> o.shinkansen_transaction_id,
     shinkansen_transaction_status |-> o.shinkansen_transaction_status,
     shinkansen_transaction_message |-> o.shinkansen_transaction_message,
     response_status |-> o.response_status,
     response_message |-> o.response_message,
     transaction_type |-> o.transaction_type,
     response_id |-> o.response_id]

\* The text json.dumps writes for a document.
json_dumps(doc) == [form |-> "dumps", doc |-> doc]

\* ResponseMessage.as_json: json.dumps of the message's __dict__, which
\* holds header, responses and original_json.
ResponseMessage_as_json(self) ==
    json_dumps([document |->
        [header |-> MessageHeader_dict(self.header),
         responses |-> [i \in 1..Len(self.responses) |-> Response_dict(self.responses[i])],
         original_json |-> self.original_json]])

\* ResponseMessage.verify handing as_json() to verify_detached.
ResponseMessage_verify_reserialized(self, detached_jws, sender_certificates, sender, receiver) ==
    LET v == verify_detached(ResponseMessage_as_json(self), detached_jws,
                             sender_certificates) IN
    IF v.err # NoError
    THEN [err |-> v.err, steps |-> <<"verify_detached">>,
          payload |-> ResponseMessage_as_json(self)]
    ELSE IF FinancialInstitution_ne(self.header.sender, sender)
    THEN [err |-> UnexpectedSender, steps |-> <<"verify_detached", "sender">>,
          payload |-> ResponseMessage_as_json(self)]
    ELSE IF FinancialInstitution_ne(self.header.receiver, receiver)
    THEN [err |-> UnexpectedReceiver,
          steps |-> <<"verify_detached", "sender", "receiver">>,
          payload |-> ResponseMessage_as_json(self)]
    ELSE [err |-> NoError, steps |-> <<"verify_detached", "sender", "receiver">>,
          payload |-> ResponseMessage_as_json(self)]

\* ResponseMessage.verify without the comparison of the receiver.
ResponseMessage_verify_no_receiver(self, detached_jws, sender_certificates, sender, receiver) ==
    LET v == verify_detached(self.original_json, detached_jws, sender_certificates) IN
    IF v.err # NoError
    THEN [err |-> v.err, steps |-> <<"verify_detached">>,
          payload |-> self.original_json]
    ELSE IF FinancialInstitution_ne(self.header.sender, sender)
    THEN [err |-> UnexpectedSender, steps |-> <<"verify_detached", "sender">>,
          payload |-> self.original_json]
    ELSE [err |-> NoError, steps |-> <<"verify_detached", "sender">>,
          payload |-> self.original_json]

\* ResponseMessage.verify comparing the parties before the signature.
ResponseMessage_verify_parties_first(self, detached_jws, sender_certificates, sender, receiver) ==
    LET v == verify_detached(self.original_json, detached_jws, sender_certificates) IN
    IF FinancialInstitution_ne(self.header.sender, sender)
    THEN [err |-> UnexpectedSender, steps |-> <<"sender">>,
          payload |-> self.original_json]
    ELSE IF FinancialInstitution_ne(self.header.receiver, receiver)
    THEN [err |-> UnexpectedReceiver, steps |-> <<"sender", "receiver">>,
          payload |-> self.original_json]
    ELSE [err |-> v.err, steps |-> <<"sender", "receiver", "verify_detached">>,
          payload |-> self.original_json]

\* ResponseMessage.verify: the outcome, the checks started and the payload
\* handed to verify_detached.
ResponseMessage_verify(self, detached_jws, sender_certificates, sender, receiver) ==
    LET v == verify_detached(self.original_json, detached_jws, sender_certificates) IN
    IF v.err # NoError
    THEN [err |-> v.err, steps |-> <<"verify_detached">>,
          payload |-> self.original_json]
    ELSE IF FinancialInstitution_ne(self.header.sender, sender)
    THEN [err |-> UnexpectedSender, steps |-> <<"verify_detached", "sender">>,
          payload |-> self.original_json]
    ELSE IF FinancialInstitution_ne(self.header.receiver, receiver)
    THEN [err |-> UnexpectedReceiver,
          steps |-> <<"verify_detached", "sender", "receiver">>,
          payload |-> self.original_json]
    ELSE [err |-> NoError, steps |-> <<"verify_detached", "sender", "receiver">>,
          payload |-> self.original_json]

(***************************************************************************)
(* Response messages on the wire and their verification.                   *)
(***************************************************************************)
FinIds == {"SHINKANSEN", "TAMAGOTCHI"}
WireSchemas == {"SHINKANSEN", "OTHER", PyNone}
SampleResponse ==
    [response_id |-> "f7a29de9", transaction_id |-> PyNone,
     shinkansen_transaction_id |-> "27c1fc3f",
     shinkansen_transaction_status |-> "error",
     shinkansen_transaction_message |-> "error",
     response_status |-> "error", response_message |-> "Bad Request",
     transaction_type |-> "payout"]
\* The response message texts a sender may write.
ResponseTexts ==
    {JsonText([document |->
        [header |-> [sender |-> [fin_id |-> sf, fin_id_schema |-> ss],
                     receiver |-> [fin_id |-> rf, fin_id_schema |-> "SHINKANSEN"],
                     message_id |-> "8a608962",
                     creation_date |-> "2022-10-25T19:10:54Z"],
         responses |-> <<SampleResponse>>]]) :
        sf \in FinIds, ss \in WireSchemas, rf \in FinIds \cup {"SOMEONE_ELSE"}}
\* The values a caller may pass as expected sender or receiver: financial
\* institutions, and a value of another type with the same attributes.
ExpectedParties ==
    {FinancialInstitution(f, s) : f \in FinIds, s \in {PyNone, "OTHER"}}
    \cup {[k |-> "dict", fin_id |-> "SHINKANSEN", fin_id_schema |-> "SHINKANSEN"]}
RespWhitelists == {<<>>} \cup {<<c>> : c \in Certs}
Fresh == [uuid |-> "fresh-uuid", now |-> "fresh-now",
          tx |-> <<"fresh-uuid-1", "fresh-uuid-2", "fresh-uuid-3", "fresh-uuid-4">>]

\* The sender signs a response message text.
RespSign ==
    /\ pc = "start"
    /\ \E text \in ResponseTexts, key \in Keys, certificate \in Certs :
          signCall' = [payload |-> text, key |-> key, certificate |-> certificate,
                       out |-> sign(text, key, certificate)]
    /\ pc' = "signed"
    /\ UNCHANGED <<msgVars, extVars, wire, verifyCall, message, respCall>>

\* The text and its signature arrive as they were signed.
RespDeliver ==
    /\ pc = "signed"
    /\ signCall.out.err = NoError
    /\ wire' = [payload |-> signCall.payload, jws |-> signCall.out.value,
                origin |-> "signed"]
    /\ pc' = "delivered"
    /\ UNCHANGED <<msgVars, extVars, signCall, verifyCall, message, respCall>>

\* Another text arrives under the signature.
RespTamperPayload ==
    /\ pc = "signed"
    /\ signCall.out.err = NoError
    /\ \E text \in ResponseTexts \ {signCall.payload} :
          wire' = [payload |-> text, jws |-> signCall.out.value,
                   origin |-> "payload_changed"]
    /\ pc' = "delivered"
    /\ UNCHANGED <<msgVars, extVars, signCall, verifyCall, message, respCall>>

\* The signature arrives with one byte changed.
RespTamperSignature ==
    /\ pc = "signed"
    /\ signCall.out.err = NoError
    /\ \E m \in {x \in OneByteMutations(signCall.out.value) :
                    x.class \in {"signature_bytes", "signature_same_bytes", "separator"}} :
          wire' = [payload |-> signCall.payload, jws |-> m.jws, origin |-> m.class]
    /\ pc' = "delivered"
    /\ UNCHANGED <<msgVars, extVars, signCall, verifyCall, message, respCall>>

\* message = ResponseMessage.from_json(text)
RespParse ==
    /\ pc = "delivered"
    /\ ResponseMessage_from_json(wire.payload, Fresh).err = NoError
    /\ message' = ResponseMessage_from_json(wire.payload, Fresh).val
    /\ pc' = "parsed"
    /\ UNCHANGED <<msgVars, extVars, signCall, wire, verifyCall, respCall>>

\* The caller assigns message.header.sender or message.responses.
RespSetAttr ==
    /\ pc = "parsed"
    /\ \/ message' = [message EXCEPT !.header.sender =
                                        FinancialInstitution("SHINKANSEN", PyNone)]
       \/ message' = [message EXCEPT !.responses = <<>>]
    /\ pc' = "changed"
    /\ UNCHANGED <<msgVars, extVars, signCall, wire, verifyCall, respCall>>

\* message.verify(detached_jws, sender_certificates, sender, receiver)
RespVerify ==
    /\ pc \in {"parsed", "changed"}
    /\ \E sender \in ExpectedParties, receiver \in ExpectedParties,
          wl \in RespWhitelists :
          respCall' = [detached_jws |-> wire.jws, sender_certificates |-> wl,
                       sender |-> sender, receiver |-> receiver,
                       out |-> ResponseMessage_verify(message, wire.jws, wl,
                                                      sender, receiver)]
    /\ pc' = "verified"
    /\ UNCHANGED <<msgVars, extVars, signCall, wire, verifyCall, message>>

RespNext == RespSign \/ RespDeliver \/ RespTamperPayload \/ RespTamperSignature
            \/ RespParse \/ RespSetAttr \/ RespVerify

RespSpec == Init /\ [][RespNext]_vars

(***************************************************************************)
(* shinkansen/payins.py and shinkansen/payouts.py: the objects of a        *)
(* message, the JSON text as_json writes for them and the objects from_json *)
(* builds from a text.  A JSON object is a function from its keys; null is  *)
(* None.                                                                   *)
(***************************************************************************)
\* PersonId.__init__
PersonId(id_schema, id) == [k |-> "PersonId", id_schema |-> id_schema, id |-> id]

\* PayoutMessageHeader.__init__
PayoutMessageHeader(sender, receiver, message_id, creation_date, fresh) ==
    [sender |-> sender, receiver |-> receiver,
     message_id |-> IF message_id \in {PyNone, ""} THEN fresh.uuid ELSE message_id,
     creation_date |-> IF creation_date \in {PyNone, ""} THEN fresh.now
                       ELSE creation_date]

\* PayinDebtor.__init__, PayinCreditor.__init__, PayoutDebtor.__init__ and
\* PayoutCreditor.__init__ store their six arguments.
Party(class, name, identification, financial_institution, account, account_type, email) ==
    [k |-> class, name |-> name, identification |-> identification,
     financial_institution |-> financial_institution, account |-> account,
     account_type |-> account_type, email |-> email]
PayinDebtor(name, identification, financial_institution, account, account_type, email) ==
    Party("PayinDebtor", name, identification, financial_institution, account,
          account_type, email)
PayinCreditor(name, identification, financial_institution, account, account_type, email) ==
    Party("PayinCreditor", name, identification, financial_institution, account,
          account_type, email)
PayoutDebtor(name, identification, financial_institution, account, account_type, email) ==
    Party("PayoutDebtor", name, identification, financial_institution, account,
          account_type, email)
PayoutCreditor(name, identification, financial_institution, account, account_type, email) ==
    Party("PayoutCreditor", name, identification, financial_institution, account,
          account_type, email)

\* PayinTransaction.__init__; a holds the keyword arguments, fresh_uuid what
\* random_uuid() returns at this call.
PayinTransaction(a, fresh_uuid) ==
    [k |-> "PayinTransaction",
     transaction_type |-> "payin",
     payin_type |-> a.payin_type,
     interactive_payment_provider |-> a.interactive_payment_provider,
     interactive_payment_success_redirect_url |->
         a.interactive_payment_success_redirect_url,
     interactive_payment_failure_redirect_url |->
         a.interactive_payment_failure_redirect_url,
     transaction_id |-> IF a.transaction_id \in {PyNone, ""} THEN fresh_uuid
                        ELSE a.transaction_id,
     currency |-> a.currency,
     amount |-> a.amount,
     description |-> a.description,
     expiration_date |-> a.expiration_date,
     debtor |-> a.debtor,
     creditor |-> a.creditor]

\* PayoutTransaction.__init__; fresh_now is what datetime.now gives.
PayoutTransaction(a, fresh_uuid, fresh_now) ==
    [k |-> "PayoutTransaction",
     transaction_type |-> "payout",
     transaction_id |-> IF a.transaction_id \in {PyNone, ""} THEN fresh_uuid
                        ELSE a.transaction_id,
     currency |-> a.currency,
     amount |-> a.amount,
     description |-> a.description,
     execution_date |-> IF a.execution_date \in {PyNone, ""} THEN fresh_now
                        ELSE a.execution_date,
     debtor |-> a.debtor,
     creditor |-> a.creditor]

\* PayinMessage.__init__, PayoutMessage.__init__, ResponseMessage.__init__
PayinMessage(header, transactions) ==
    [k |-> "PayinMessage", header |-> header, transactions |-> transactions]
PayoutMessage(header, transactions) ==
    [k |-> "PayoutMessage", header |-> header, transactions |-> transactions]
ResponseMessage(header, responses, original_json) ==
    [header |-> header, responses |-> responses, original_json |-> original_json]

(***************************************************************************)
(* PayinMessage.as_json: json.dumps with a default that turns an object    *)
(* into the dict of its attributes that are not None.                      *)
(***************************************************************************)
\* The comprehension without its condition: None is kept.
NotNoneItem_keeps_none(key, v) == key :> v

\* One (k, v) of the comprehension: nothing for None.
NotNoneItem(key, v) == IF v = PyNone THEN EmptyJsonObject ELSE key :> v

NotNone_PersonId(o) ==
    NotNoneItem("id_schema", o.id_schema) @@ NotNoneItem("id", o.id)
NotNone_FinancialInstitution(o) ==
    NotNoneItem("fin_id", o.fin_id) @@ NotNoneItem("fin_id_schema", o.fin_id_schema)
NotNone_Party(o) ==
    NotNoneItem("name", o.name)
    @@ (IF o.identification = NoneObj THEN EmptyJsonObject
        ELSE "identification" :> NotNone_PersonId(o.identification))
    @@ (IF o.financial_institution = NoneObj THEN EmptyJsonObject
        ELSE "financial_institution" :>
                 NotNone_FinancialInstitution(o.financial_institution))
    @@ NotNoneItem("account", o.account)
    @@ NotNoneItem("account_type", o.account_type)
    @@ NotNoneItem("email", o.email)
NotNone_MessageHeader(o) ==
    (IF o.sender = NoneObj THEN EmptyJsonObject
     ELSE "sender" :> NotNone_FinancialInstitution(o.sender))
    @@ (IF o.receiver = NoneObj THEN EmptyJsonObject
        ELSE "receiver" :> NotNone_FinancialInstitution(o.receiver))
    @@ NotNoneItem("message_id", o.message_id)
    @@ NotNoneItem("creation_date", o.creation_date)
NotNone_PayinTransaction(o) ==
    NotNoneItem("transaction_type", o.transaction_type)
    @@ NotNoneItem("payin_type", o.payin_type)
    @@ NotNoneItem("interactive_payment_provider", o.interactive_payment_provider)
    @@ NotNoneItem("interactive_payment_success_redirect_url",
                   o.interactive_payment_success_redirect_url)
    @@ NotNoneItem("interactive_payment_failure_redirect_url",
                   o.interactive_payment_failure_redirect_url)
    @@ NotNoneItem("transaction_id", o.transaction_id)
    @@ NotNoneItem("currency", o.currency)
    @@ NotNoneItem("amount", o.amount)
    @@ NotNoneItem("description", o.description)
    @@ NotNoneItem("expiration_date", o.expiration_date)
    @@ (IF o.debtor = NoneObj THEN EmptyJsonObject
        ELSE "debtor" :> NotNone_Party(o.debtor))
    @@ (IF o.creditor = NoneObj THEN EmptyJsonObject
        ELSE "creditor" :> NotNone_Party(o.creditor))

\* PayinMessage.as_json
PayinMessage_as_json(self) ==
    json_dumps([document |->
        (IF self.header = NoneObj THEN EmptyJsonObject
         ELSE "header" :> NotNone_MessageHeader(self.header))
        @@ ("transactions" :> [i \in 1..Len(self.transactions) |->
                                  NotNone_PayinTransaction(self.transactions[i])])])

(***************************************************************************)
(* PayoutMessage.as_json: json.dumps with a default that turns an object   *)
(* into the dict of all its attributes.                                    *)
(***************************************************************************)
PersonId_dict(o) == [id_schema |-> o.id_schema, id |-> o.id]

\* __dict__ of a debtor or creditor, with the default applied to the objects
\* it holds; None stays None (null).
Party_dict(o) ==
    [name |-> o.name,
     identification |-> IF o.identification = NoneObj THEN NoneObj
                        ELSE PersonId_dict(o.identification),
     financial_institution |-> IF o.financial_institution = NoneObj THEN NoneObj
                               ELSE FinancialInstitution_dict(o.financial_institution),
     account |-> o.account, account_type |-> o.account_type, email |-> o.email]

PayoutTransaction_dict(o) ==
    [transaction_type |-> o.transaction_type,
     transaction_id |-> o.transaction_id,
     currency |-> o.currency,
     amount |-> o.amount,
     description |-> o.description,
     execution_date |-> o.execution_date,
     debtor |-> IF o.debtor = NoneObj THEN NoneObj ELSE Party_dict(o.debtor),
     creditor |-> IF o.creditor = NoneObj THEN NoneObj ELSE Party_dict(o.creditor)]

\* PayoutMessage.as_json
PayoutMessage_as_json(self) ==
    json_dumps([document |->
        [header |-> MessageHeader_dict(self.header),
         transactions |-> [i \in 1..Len(self.transactions) |->
                              PayoutTransaction_dict(self.transactions[i])]]])

(***************************************************************************)
(* from_json: the outcome is the message built, or the first error raised.  *)
(***************************************************************************)
Raised(err) == [err |-> err, val |-> NoneObj]
Returned(val) == [err |-> NoError, val |-> val]

\* x and PersonId(id_schema=x["id_schema"], id=x["id"])
PersonId_and(x) ==
    IF ~Truthy(x) THEN Returned(x)
    ELSE IF Subscript_err(x, {"id_schema", "id"}) # NoError
    THEN Raised(Subscript_err(x, {"id_schema", "id"}))
    ELSE Returned(PersonId(x["id_schema"], x["id"]))

\* x and FinancialInstitution(fin_id_schema=x["fin_id_schema"], fin_id=x["fin_id"])
FinancialInstitution_and(x) ==
    IF ~Truthy(x) THEN Returned(x)
    ELSE IF Subscript_err(x, {"fin_id_schema", "fin_id"}) # NoError
    THEN Raised(Subscript_err(x, {"fin_id_schema", "fin_id"}))
    ELSE Returned(FinancialInstitution(x["fin_id"], x["fin_id_schema"]))

\* t.get("debtor") and PayinDebtor(...) of PayinMessage.from_json
PayinDebtor_from_json_dict(t) ==
    LET d == dict_get_obj(t, "debtor")
        i == PersonId_and(dict_get_obj(d, "identification"))
        f == FinancialInstitution_and(dict_get_obj(d, "financial_institution"))
    IN IF ~Truthy(d) THEN Returned(d)
       ELSE IF FirstError(<<i.err, f.err>>) # NoError
       THEN Raised(FirstError(<<i.err, f.err>>))
       ELSE Returned(PayinDebtor(dict_get(d, "name"), i.val, f.val,
                                 dict_get(d, "account"), dict_get(d, "account_type"),
                                 dict_get(d, "email")))

\* The error of the subscripts that build a creditor, or a payout's debtor,
\* from p = t[key].
Party_subscript_err(t, key) ==
    IF Subscript_err(t, {key}) # NoError THEN Subscript_err(t, {key})
    ELSE LET p == t[key] IN
      FirstError(<<Subscript_err(p, {"name", "identification", "financial_institution",
                                     "account", "account_type", "email"}),
                   IF Subscript_err(p, {"identification"}) = NoError
                   THEN Subscript_err(p["identification"], {"id_schema", "id"})
                   ELSE NoError,
                   IF Subscript_err(p, {"financial_institution"}) = NoError
                   THEN Subscript_err(p["financial_institution"],
                                      {"fin_id_schema", "fin_id"})
                   ELSE NoError>>)

\* PayinCreditor(...), PayoutDebtor(...), PayoutCreditor(...) of the two
\* from_json, every attribute taken by subscript.
Party_from_json_dict(class, t, key) ==
    IF Party_subscript_err(t, key) # NoError THEN Raised(Party_subscript_err(t, key))
    ELSE LET p == t[key] IN
      Returned(Party(class, p["name"],
                     PersonId(p["identification"]["id_schema"], p["identification"]["id"]),
                     FinancialInstitution(p["financial_institution"]["fin_id"],
                                          p["financial_institution"]["fin_id_schema"]),
                     p["account"], p["account_type"], p["email"]))

\* PayinTransaction(...) of PayinMessage.from_json
PayinTransaction_from_json_dict(t, fresh_uuid) ==
    LET debtor == PayinDebtor_from_json_dict(t)
        creditor == Party_from_json_dict("PayinCreditor", t, "creditor")
        err == FirstError(<<Subscript_err(t, {"payin_type", "transaction_id", "currency"}),
                            debtor.err, creditor.err>>)
    IN IF err # NoError THEN Raised(err)
       ELSE Returned(PayinTransaction(
                [payin_type |-> t["payin_type"],
                 interactive_payment_provider |->
                     dict_get(t, "interactive_payment_provider"),
                 interactive_payment_success_redirect_url |->
                     dict_get(t, "interactive_payment_success_redirect_url"),
                 interactive_payment_failure_redirect_url |->
                     dict_get(t, "interactive_payment_failure_redirect_url"),
                 transaction_id |-> t["transaction_id"],
                 currency |-> t["currency"],
                 amount |-> dict_get(t, "amount"),
                 description |-> dict_get(t, "description"),
                 expiration_date |-> dict_get(t, "expiration_date"),
                 debtor |-> debtor.val,
                 creditor |-> creditor.val], fresh_uuid))

\* PayoutTransaction(...) of PayoutMessage.from_json
PayoutTransaction_from_json_dict(t, fresh_uuid, fresh_now) ==
    LET debtor == Party_from_json_dict("PayoutDebtor", t, "debtor")
        creditor == Party_from_json_dict("PayoutCreditor", t, "creditor")
        err == FirstError(<<Subscript_err(t, {"currency", "amount", "description"}),
                            debtor.err, creditor.err,
                            Subscript_err(t, {"execution_date", "transaction_id"})>>)
    IN IF err # NoError THEN Raised(err)
       ELSE Returned(PayoutTransaction(
                [currency |-> t["currency"], amount |-> t["amount"],
                 description |-> t["description"],
                 debtor |-> debtor.val, creditor |-> creditor.val,
                 execution_date |-> t["execution_date"],
                 transaction_id |-> t["transaction_id"]], fresh_uuid, fresh_now))

\* The transactions of a from_json: the list, or the first error.
Transactions_from(parsed) ==
    LET errs == [i \in 1..Len(parsed) |-> parsed[i].err] IN
    IF FirstError(errs) # NoError THEN Raised(FirstError(errs))
    ELSE Returned([i \in 1..Len(parsed) |-> parsed[i].val])

\* PayinMessage.from_json reading the transactions with
\* json_dict["document"].get("transactions", []).
PayinMessage_from_json_optional_transactions(json_string, fresh) ==
    LET doc == json_loads(json_string).document
        list == IF "transactions" \in DOMAIN doc THEN doc["transactions"] ELSE <<>>
        txs == Transactions_from(
                   [i \in 1..Len(list) |->
                       PayinTransaction_from_json_dict(list[i], fresh.tx[i])])
    IN IF Envelope_err(json_string, "header") # NoError
       THEN Raised(Envelope_err(json_string, "header"))
       ELSE IF txs.err # NoError THEN Raised(txs.err)
       ELSE Returned(PayinMessage(MessageHeader_from_json_dict(doc["header"], fresh),
                                  txs.val))

\* PayinMessage.from_json
PayinMessage_from_json(json_string, fresh) ==
    LET doc == json_loads(json_string).document
        txs == Transactions_from(
                   [i \in 1..Len(doc["transactions"]) |->
                       PayinTransaction_from_json_dict(doc["transactions"][i],
                                                       fresh.tx[i])])
    IN IF Envelope_err(json_string, "transactions") # NoError
       THEN Raised(Envelope_err(json_string, "transactions"))
       ELSE IF txs.err # NoError THEN Raised(txs.err)
       ELSE Returned(PayinMessage(MessageHeader_from_json_dict(doc["header"], fresh),
                                  txs.val))

\* PayoutMessage.from_json
PayoutMessage_from_json(json_string, fresh) ==
    LET doc == json_loads(json_string).document
        h == doc["header"]
        txs == Transactions_from(
                   [i \in 1..Len(doc["transactions"]) |->
                       PayoutTransaction_from_json_dict(doc["transactions"][i],
                                                        fresh.tx[i], fresh.now)])
    IN IF Envelope_err(json_string, "transactions") # NoError
       THEN Raised(Envelope_err(json_string, "transactions"))
       ELSE IF txs.err # NoError THEN Raised(txs.err)
       ELSE Returned(PayoutMessage(
                PayoutMessageHeader(
                    FinancialInstitution(h["sender"]["fin_id"],
                                         h["sender"]["fin_id_schema"]),
                    FinancialInstitution(h["receiver"]["fin_id"],
                                         h["receiver"]["fin_id_schema"]),
                    h["message_id"], h["creation_date"], fresh),
                txs.val))

(***************************************************************************)
(* Messages built by a caller, written with as_json and read back with     *)
(* from_json.                                                              *)
(***************************************************************************)
MaxTransactions == 2

\* What random_uuid() and now_as_isoformat() return while a text is parsed:
\* other values than while the message was built.
FreshParse == [uuid |-> "parse-uuid", now |-> "parse-now",
               tx |-> <<"parse-uuid-1", "parse-uuid-2", "parse-uuid-3",
                        "parse-uuid-4">>]

SHINKANSEN == FinancialInstitution("SHINKANSEN", PyNone)
MessageIds == {PyNone, "", "8a608962"}
CreationDates == {PyNone, "2022-10-25T19:10:54Z"}
SamplePersonId == PersonId("CLID", "11111111-1")
SampleBank == FinancialInstitution("BANCO_BICE_CL", PyNone)

\* Debtors of a payin: none, one with no attribute set, one with some, one
\* whose identification has no attribute set.
PayinDebtors ==
    {NoneObj,
     PayinDebtor(PyNone, NoneObj, NoneObj, PyNone, PyNone, PyNone),
     PayinDebtor("Jane", SamplePersonId, NoneObj, PyNone, PyNone, "j@example.org"),
     PayinDebtor(PyNone, PersonId(PyNone, PyNone), SampleBank, "4242", PyNone, PyNone)}
PayinCreditors ==
    {PayinCreditor("Fictional Company", SamplePersonId, SampleBank, "4242",
                   "current_account", "c@example.org")}
PayinTransactionArgs ==
    {[payin_type |-> "interactive_payment",
      interactive_payment_provider |-> PyNone,
      interactive_payment_success_redirect_url |-> "https://example.org/ok",
      interactive_payment_failure_redirect_url |-> PyNone,
      transaction_id |-> id, currency |-> "CLP", amount |-> "100",
      description |-> "", expiration_date |-> PyNone,
      debtor |-> d, creditor |-> c] :
        id \in {PyNone, "", "tx-1"}, d \in PayinDebtors, c \in PayinCreditors}

PayoutDebtors ==
    {PayoutDebtor("Fictional Company", SamplePersonId, SampleBank, "4242",
                  "current_account", "c@example.org")}
PayoutCreditors ==
    {PayoutCreditor("Jane", SamplePersonId, SampleBank, "1717", "current_account",
                    "j@example.org")}
PayoutTransactionArgs ==
    {[currency |-> "CLP", amount |-> "100", description |-> "Test payment",
      debtor |-> d, creditor |-> c, execution_date |-> x, transaction_id |-> id] :
        d \in PayoutDebtors, c \in PayoutCreditors,
        x \in {PyNone, "2022-10-26T00:00:00Z"}, id \in {PyNone, "", "tx-1"}}

\* The lists of at most MaxTransactions elements of a set.
ListsOf(S) == UNION {[1..n -> S] : n \in 0..MaxTransactions}

\* Keyword arguments of PayoutResponse(...)
ResponseArgs ==
    {[transaction_id |-> "1545e0f0", shinkansen_transaction_id |-> "5e5a7344",
      shinkansen_transaction_status |-> "ok", shinkansen_transaction_message |-> "ok",
      response_status |-> "ok", response_message |-> ""] @@ tt @@ rid :
        tt \in {EmptyJsonObject, "transaction_type" :> "payout"},
        rid \in {EmptyJsonObject, "response_id" :> "f7a29de9"}}

\* Response objects of a text: the registered type, another one or none;
\* response_id given, null or missing; with or without a field the classes
\* do not know; and one without a required field.
ResponseDicts ==
    {[transaction_id |-> PyNone, shinkansen_transaction_id |-> "27c1fc3f",
      shinkansen_transaction_status |-> "error",
      shinkansen_transaction_message |-> "error",
      response_status |-> "error", response_message |-> "Bad Request"]
     @@ tt @@ rid @@ new :
        tt \in {EmptyJsonObject, "transaction_type" :> "payout",
                "transaction_type" :> "payin"},
        rid \in {EmptyJsonObject, "response_id" :> "f7a29de9",
                 "response_id" :> PyNone},
        new \in {EmptyJsonObject, "new_field" :> "x"}}
    \cup {[transaction_type |-> "payout", response_id |-> "f7a29de9"]}

\* PayinMessage(MessageHeader(...), [PayinTransaction(...), ...])
MsgBuildPayin ==
    /\ pc = "start"
    /\ \E id \in MessageIds, date \in CreationDates,
          txs \in ListsOf(PayinTransactionArgs) :
          built' = [kind |-> "payin",
                    args |-> [message_id |-> id, creation_date |-> date,
                              transactions |-> txs],
                    obj |-> PayinMessage(
                        MessageHeader(SHINKANSEN,
                                      FinancialInstitution("TAMAGOTCHI", PyNone),
                                      id, date, Fresh),
                        [i \in 1..Len(txs) |-> PayinTransaction(txs[i], Fresh.tx[i])])]
    /\ pc' = "built"
    /\ UNCHANGED <<jwsVars, extVars, written, loaded>>

\* PayoutMessage(PayoutMessageHeader(...), [PayoutTransaction(...), ...])
MsgBuildPayout ==
    /\ pc = "start"
    /\ \E id \in MessageIds, date \in CreationDates,
          txs \in ListsOf(PayoutTransactionArgs) :
          built' = [kind |-> "payout",
                    args |-> [message_id |-> id, creation_date |-> date,
                              transactions |-> txs],
                    obj |-> PayoutMessage(
                        PayoutMessageHeader(FinancialInstitution("TAMAGOTCHI", PyNone),
                                            SHINKANSEN, id, date, Fresh),
                        [i \in 1..Len(txs) |->
                            PayoutTransaction(txs[i], Fresh.tx[i], Fresh.now)])]
    /\ pc' = "built"
    /\ UNCHANGED <<jwsVars, extVars, written, loaded>>

\* ResponseMessage(MessageHeader(...), [PayoutResponse(...)])
MsgBuildResponse ==
    /\ pc = "start"
    /\ \E id \in MessageIds, date \in CreationDates, a \in ResponseArgs :
          built' = [kind |-> "response",
                    args |-> [message_id |-> id, creation_date |-> date,
                              transactions |-> <<a>>],
                    obj |-> ResponseMessage(
                        MessageHeader(SHINKANSEN,
                                      FinancialInstitution("TEST", PyNone),
                                      id, date, Fresh),
                        <<Response_init("PayoutResponse", a, Fresh).val>>,
                        NoneObj)]
    /\ pc' = "built"
    /\ UNCHANGED <<jwsVars, extVars, written, loaded>>

\* The caller sets an attribute of the message to None.
MsgSetAttr ==
    /\ pc = "built"
    /\ built.kind \in {"payin", "payout"}
    /\ Len(built.obj.transactions) >= 1
    /\ \/ built' = [built EXCEPT
                       !.obj.transactions[1].creditor.financial_institution = NoneObj]
       \/ built' = [built EXCEPT !.obj.transactions[1].debtor = NoneObj]
       \/ built' = [built EXCEPT !.obj.header.creation_date = PyNone]
    /\ pc' = "changed"
    /\ UNCHANGED <<jwsVars, extVars, written, loaded>>

\* written = message.as_json()
MsgAsJson ==
    /\ pc \in {"built", "changed"}
    /\ written' = CASE built.kind = "payin" -> PayinMessage_as_json(built.obj)
                 [] built.kind = "payout" -> PayoutMessage_as_json(built.obj)
                 [] built.kind = "response" -> ResponseMessage_as_json(built.obj)
    /\ pc' = "serialized"
    /\ UNCHANGED <<jwsVars, extVars, built, loaded>>

\* The class's from_json(written)
MsgFromJson ==
    /\ pc = "serialized"
    /\ built.kind \in {"payin", "payout"}
    /\ loaded' = IF built.kind = "payin" THEN PayinMessage_from_json(written, FreshParse)
                 ELSE PayoutMessage_from_json(written, FreshParse)
    /\ pc' = "roundtrip"
    /\ UNCHANGED <<jwsVars, extVars, built, written>>

\* Response.from_json_dict(d)
MsgResponseFromJsonDict ==
    /\ pc = "start"
    /\ \E d \in ResponseDicts :
          /\ built' = [kind |-> "response_dict", args |-> d, obj |-> NoneObj]
          /\ loaded' = Response_from_json_dict(d, FreshParse)
    /\ pc' = "decoded"
    /\ UNCHANGED <<jwsVars, extVars, written>>

\* ResponseMessage.from_json of a text that holds one response object.
MsgResponseFromJson ==
    /\ pc = "start"
    /\ \E d \in ResponseDicts :
          /\ built' = [kind |-> "response_text", args |-> d, obj |-> NoneObj]
          /\ written' = JsonText([document |->
                        [header |-> [sender |-> [fin_id |-> "SHINKANSEN",
                                                 fin_id_schema |-> "SHINKANSEN"],
                                     receiver |-> [fin_id |-> "TAMAGOTCHI",
                                                   fin_id_schema |-> "SHINKANSEN"],
                                     message_id |-> "8a608962",
                                     creation_date |-> "2022-10-25T19:10:54Z"],
                         responses |-> <<d>>]])
          /\ loaded' = ResponseMessage_from_json(written', FreshParse)
    /\ pc' = "received"
    /\ UNCHANGED <<jwsVars, extVars>>

\* ResponseMessage.from_json(written).as_json()
MsgReserialize ==
    /\ pc = "received"
    /\ loaded.err = NoError
    /\ written' = ResponseMessage_as_json(loaded.val)
    /\ pc' = "reserialized"
    /\ UNCHANGED <<jwsVars, extVars, built, loaded>>

\* A dict without one of its entries.
Drop(d, key) == [x \in DOMAIN d \ {key} |-> d[x]]

\* The text a peer sends that lacks one entry of the text given, or is no
\* JSON at all; `lacks` names what is missing.
Lacking(text, entry) ==
    LET doc ==
          CASE entry = "json" -> <<>>
            [] entry = "document" -> Drop(text.doc, "document")
            [] entry \in {"header", "transactions", "responses"} ->
                   [text.doc EXCEPT !["document"] = Drop(@, entry)]
            [] entry \in {"sender", "receiver", "message_id", "creation_date"} ->
                   [text.doc EXCEPT !["document"]["header"] = Drop(@, entry)]
            [] entry = "creditor.financial_institution" ->
                   [text.doc EXCEPT !["document"]["transactions"][1]["creditor"] =
                                        Drop(@, "financial_institution")]
    IN [form |-> IF entry = "json" THEN "notjson" ELSE "wire", doc |-> doc,
        lacks |-> entry]

\* The entries an envelope must have.
EnvelopeEntries(kind) ==
    {"json", "document", "header", "sender", "receiver", "message_id",
     "creation_date", IF kind = "response_text" THEN "responses" ELSE "transactions"}

\* from_json of a text like the one written (or, for a response message,
\* received) but lacking an entry.
MsgFromJsonLacking ==
    /\ \/ pc = "serialized" /\ built.kind \in {"payin", "payout"}
       \/ pc = "received" /\ built.kind = "response_text"
    /\ \E entry \in EnvelopeEntries(built.kind) \cup {"creditor.financial_institution"} :
          /\ entry = "creditor.financial_institution"
                => /\ built.kind = "payout"
                   /\ Len(written.doc["document"]["transactions"]) >= 1
          /\ written' = Lacking(written, entry)
          /\ loaded' = CASE built.kind = "payin" ->
                                PayinMessage_from_json(written', FreshParse)
                         [] built.kind = "payout" ->
                                PayoutMessage_from_json(written', FreshParse)
                         [] built.kind = "response_text" ->
                                ResponseMessage_from_json(written', FreshParse)
    /\ pc' = "reparsed"
    /\ UNCHANGED <<jwsVars, extVars, built>>


\* The call PayoutTransaction(**kwargs): python raises TypeError for a
\* keyword __init__ does not declare and for a required one that is missing.
PayoutTransactionRequired == {"currency", "amount", "description", "debtor", "creditor"}
PayoutTransactionOptional == {"execution_date", "transaction_id"}
PayoutTransaction_call(kwargs, fresh_uuid, fresh_now) ==
    IF \/ ~(PayoutTransactionRequired \subseteq DOMAIN kwargs)
       \/ ~(DOMAIN kwargs \subseteq PayoutTransactionRequired \cup PayoutTransactionOptional)
    THEN Raised(TypeError)
    ELSE Returned(PayoutTransaction(
             [currency |-> kwargs["currency"], amount |-> kwargs["amount"],
              description |-> kwargs["description"],
              debtor |-> kwargs["debtor"], creditor |-> kwargs["creditor"],
              execution_date |-> dict_get(kwargs, "execution_date"),
              transaction_id |-> dict_get(kwargs, "transaction_id")],
             fresh_uuid, fresh_now))

\* The keyword arguments callers pass: the required ones, with or without
\* the optional ones and the routing fields, and a call without amount.
RoutingFields == {"tracking_key", "reference_number", "payment_purpose_category",
                  "payment_rail", "execution_mode", "po_connection"}
RoutingValues == [tracking_key |-> "AAA123467", reference_number |-> "1234567",
                  payment_purpose_category |-> "default", payment_rail |-> "default",
                  execution_mode |-> "default", po_connection |-> "default"]
PayoutTransactionKwargs ==
    LET required == [currency |-> "CLP", amount |-> "100",
                     description |-> "Test description",
                     debtor |-> PayoutDebtor("Test Debtor", SamplePersonId, SampleBank,
                                             "123456789", "current_account",
                                             "debtor@example.org"),
                     creditor |-> PayoutCreditor("Test Creditor", SamplePersonId,
                                                 SampleBank, "00000000", "cash_account",
                                                 "test@example.org")]
        optional == {EmptyJsonObject, "transaction_id" :> "tx-1",
                     "execution_date" :> "2022-10-26T00:00:00Z"}
        routing == {EmptyJsonObject, RoutingValues}
                   \cup {f :> RoutingValues[f] : f \in RoutingFields}
    IN {required @@ o @@ r : o \in optional, r \in routing}
       \cup {Drop(required, "amount")}

\* PayoutTransaction(...) as a caller writes it.
MsgBuildPayoutTransaction ==
    /\ pc = "start"
    /\ \E kwargs \in PayoutTransactionKwargs :
          LET out == PayoutTransaction_call(kwargs, Fresh.tx[1], Fresh.now) IN
          /\ built' = [kind |-> "payout_transaction", args |-> kwargs, obj |-> out.val]
          /\ loaded' = out
    /\ pc' = "constructed"
    /\ UNCHANGED <<jwsVars, extVars, written>>

MsgNext == MsgBuildPayin \/ MsgBuildPayout \/ MsgBuildResponse \/ MsgSetAttr
           \/ MsgAsJson \/ MsgFromJson \/ MsgResponseFromJsonDict
           \/ MsgResponseFromJson \/ MsgReserialize \/ MsgFromJsonLacking
           \/ MsgBuildPayoutTransaction

MsgSpec == Init /\ [][MsgNext]_vars

(***************************************************************************)
(* Values compared: FinancialInstitution and PersonId define __eq__ and    *)
(* __hash__; a == b asks a.__eq__(b) and, when the class of a defines no   *)
(* comparison with b (None, a dict), the reflected b.__eq__(a).            *)
(***************************************************************************)
\* PersonId.__eq__
PersonId_eq(self, o) ==
    IF o.k = "PersonId"
    THEN self.id_schema = o.id_schema /\ self.id = o.id
    ELSE FALSE

\* a == b
py_eq(a, b) ==
    CASE a.k = "FinancialInstitution" -> FinancialInstitution_eq(a, b)
      [] a.k = "PersonId" -> PersonId_eq(a, b)
      [] b.k = "FinancialInstitution" -> FinancialInstitution_eq(b, a)
      [] b.k = "PersonId" -> PersonId_eq(b, a)
      [] OTHER -> a = b

\* hash() of a string: some number, the same for equal strings.
HashedStrings == <<"BANK", "TEST", "SHINKANSEN", "OTHER", "CLID", "1">>
str_hash(s) == 7919 * (CHOOSE i \in 1..Len(HashedStrings) : HashedStrings[i] = s)

\* hash() of a pair, in 16 bits.
tuple_hash(t) == (str_hash(t[1]) * 31 + str_hash(t[2])) % 65536

\* FinancialInstitution.__hash__ and PersonId.__hash__; 65536, no 16-bit
\* number, stands for the hash of a value of another type, which these
\* classes do not define.
py_hash(o) ==
    CASE o.k = "FinancialInstitution" -> tuple_hash(<<o.fin_id, o.fin_id_schema>>)
      [] o.k = "PersonId" -> tuple_hash(<<o.id_schema, o.id>>)
      [] OTHER -> 65536

\* The constructor calls whose results are compared, and values of other
\* types with the same content.
ValueCalls ==
    {[class |-> "FinancialInstitution", args |-> <<f, s>>] :
        f \in {"BANK", "TEST"}, s \in {PyNone, "SHINKANSEN", "OTHER"}}
    \cup {[class |-> "PersonId", args |-> <<s, i>>] :
            s \in {"CLID", "BANK"}, i \in {"1", "SHINKANSEN"}}
    \cup {[class |-> "NoneType", args |-> <<>>], [class |-> "dict", args |-> <<>>]}

ValueOf(call) ==
    CASE call.class = "FinancialInstitution" ->
             FinancialInstitution(call.args[1], call.args[2])
      [] call.class = "PersonId" -> PersonId(call.args[1], call.args[2])
      [] call.class = "NoneType" -> NoneObj
      [] OTHER -> [k |-> "dict", fin_id |-> "BANK", fin_id_schema |-> "SHINKANSEN"]

\* Three values are built and compared with each other, and hashed.
ValCompare ==
    /\ pc = "start"
    /\ \E c \in [1..3 -> ValueCalls] :
          LET v == [i \in 1..3 |-> ValueOf(c[i])] IN
          compared' = [k |-> "compared", calls |-> c, vals |-> v,
                       eq |-> [i \in 1..3 |-> [j \in 1..3 |-> py_eq(v[i], v[j])]],
                       hash |-> [i \in 1..3 |-> py_hash(v[i])]]
    /\ pc' = "compared"
    /\ UNCHANGED <<jwsVars, msgVars, outbound, calls>>

ValNext == ValCompare

ValSpec == Init /\ [][ValNext]_vars

(***************************************************************************)
(* The outbound path: sign_and_send and send of PayinMessage and           *)
(* PayoutMessage, and what from_http_response makes of the server's reply. *)
(***************************************************************************)
JSONDecodeError == "requests.exceptions.JSONDecodeError"
ShinkansenExceptionBase == "shinkansen.common.ShinkansenException"

\* A reply of the server: its status code and its body, JSON or not.
HttpReply(status_code, body) == [status_code |-> status_code, body |-> body]
NotJsonBody == [form |-> "notjson", doc |-> <<>>]
JsonBody(doc) == [form |-> "json", doc |-> doc]

\* {t[key]: t[val] for t in items}: a later item replaces an earlier one
\* with the same key.
dict_comprehension(items, key, val) ==
    [x \in {items[i][key] : i \in DOMAIN items} |->
        LET last == CHOOSE i \in DOMAIN items :
                       /\ items[i][key] = x
                       /\ \A j \in DOMAIN items : items[j][key] = x => j <= i
        IN items[last][val]]

\* The items of a list that have a key.
FilterHas(items, key) ==
    SelectSeq(items, LAMBDA t : key \in DOMAIN t)

PayinHttpResponseError(error_code, error_message) ==
    [k |-> "PayinHttpResponseError", error_code |-> error_code,
     error_message |-> error_message]
PayoutHttpResponseError(error_code, error_message) ==
    [k |-> "PayoutHttpResponseError", error_code |-> error_code,
     error_message |-> error_message]

PayinHttpResponse(http_status_code, transaction_ids, interactive_payment_urls, errors) ==
    [k |-> "PayinHttpResponse", http_status_code |-> http_status_code,
     transaction_ids |-> transaction_ids,
     interactive_payment_urls |-> interactive_payment_urls, errors |-> errors]
PayoutHttpResponse(http_status_code, transaction_ids, errors) ==
    [k |-> "PayoutHttpResponse", http_status_code |-> http_status_code,
     transaction_ids |-> transaction_ids, errors |-> errors]

\* The error of response.json()[key]
Response_json_err(response, key) ==
    IF response.body.form # "json" THEN JSONDecodeError
    ELSE IF key \notin DOMAIN response.body.doc THEN KeyError
    ELSE NoError

\* PayinHttpResponse.from_http_response without the try around the 400
\* branch.
PayinHttpResponse_from_http_response_no_try(response) ==
    IF response.status_code \in {200, 409}
    THEN IF Response_json_err(response, "transactions") # NoError
         THEN Raised(Response_json_err(response, "transactions"))
         ELSE LET txs == response.body.doc["transactions"] IN
              Returned(PayinHttpResponse(
                  response.status_code,
                  dict_comprehension(txs, "transaction_id", "shinkansen_transaction_id"),
                  dict_comprehension(FilterHas(txs, "interactive_payment_url"),
                                     "transaction_id", "interactive_payment_url"),
                  <<>>))
    ELSE IF response.status_code = 400
    THEN IF Response_json_err(response, "errors") # NoError
         THEN Raised(Response_json_err(response, "errors"))
         ELSE LET errs == response.body.doc["errors"] IN
              Returned(PayinHttpResponse(
                  response.status_code, EmptyJsonObject, EmptyJsonObject,
                  [i \in 1..Len(errs) |->
                      PayinHttpResponseError(errs[i]["error_code"],
                                             errs[i]["error_message"])]))
    ELSE Returned(PayinHttpResponse(response.status_code, EmptyJsonObject,
                                    EmptyJsonObject, <<>>))

\* PayinHttpResponse.from_http_response: a 400 whose body is not JSON falls
\* through to the catch-all at the end.
PayinHttpResponse_from_http_response(response) ==
    IF response.status_code \in {200, 409}
    THEN IF Response_json_err(response, "transactions") # NoError
         THEN Raised(Response_json_err(response, "transactions"))
         ELSE LET txs == response.body.doc["transactions"] IN
              Returned(PayinHttpResponse(
                  response.status_code,
                  dict_comprehension(txs, "transaction_id", "shinkansen_transaction_id"),
                  dict_comprehension(FilterHas(txs, "interactive_payment_url"),
                                     "transaction_id", "interactive_payment_url"),
                  <<>>))
    ELSE IF /\ response.status_code = 400
            /\ Response_json_err(response, "errors") # JSONDecodeError
    THEN IF Response_json_err(response, "errors") # NoError
         THEN Raised(Response_json_err(response, "errors"))
         ELSE LET errs == response.body.doc["errors"] IN
              Returned(PayinHttpResponse(
                  response.status_code, EmptyJsonObject, EmptyJsonObject,
                  [i \in 1..Len(errs) |->
                      PayinHttpResponseError(errs[i]["error_code"],
                                             errs[i]["error_message"])]))
    ELSE Returned(PayinHttpResponse(response.status_code, EmptyJsonObject,
                                    EmptyJsonObject, <<>>))

\* PayoutHttpResponse.from_http_response taking 409 for an error reply.
PayoutHttpResponse_from_http_response_409_error(response) ==
    IF response.status_code = 200
    THEN IF Response_json_err(response, "transactions") # NoError
         THEN Raised(Response_json_err(response, "transactions"))
         ELSE LET txs == response.body.doc["transactions"] IN
              Returned(PayoutHttpResponse(
                  response.status_code,
                  dict_comprehension(txs, "transaction_id", "shinkansen_transaction_id"),
                  <<>>))
    ELSE IF response.status_code = 400
    THEN IF Response_json_err(response, "errors") # NoError
         THEN Raised(Response_json_err(response, "errors"))
         ELSE LET errs == response.body.doc["errors"] IN
              Returned(PayoutHttpResponse(
                  response.status_code, EmptyJsonObject,
                  [i \in 1..Len(errs) |->
                      PayoutHttpResponseError(errs[i]["error_code"],
                                              errs[i]["error_message"])]))
    ELSE Returned(PayoutHttpResponse(response.status_code, EmptyJsonObject, <<>>))

\* PayoutHttpResponse.from_http_response
PayoutHttpResponse_from_http_response(response) ==
    IF response.status_code \in {200, 409}
    THEN IF Response_json_err(response, "transactions") # NoError
         THEN Raised(Response_json_err(response, "transactions"))
         ELSE LET txs == response.body.doc["transactions"] IN
              Returned(PayoutHttpResponse(
                  response.status_code,
                  dict_comprehension(txs, "transaction_id", "shinkansen_transaction_id"),
                  <<>>))
    ELSE IF response.status_code = 400
    THEN IF Response_json_err(response, "errors") # NoError
         THEN Raised(Response_json_err(response, "errors"))
         ELSE LET errs == response.body.doc["errors"] IN
              Returned(PayoutHttpResponse(
                  response.status_code, EmptyJsonObject,
                  [i \in 1..Len(errs) |->
                      PayoutHttpResponseError(errs[i]["error_code"],
                                              errs[i]["error_message"])]))
    ELSE Returned(PayoutHttpResponse(response.status_code, EmptyJsonObject, <<>>))

\* message.as_json() of either class
Message_as_json(kind, obj) ==
    IF kind = "payin" THEN PayinMessage_as_json(obj) ELSE PayoutMessage_as_json(obj)

\* api_key or os.environ.get("SHINKANSEN_API_KEY")
ApiKey(api_key, env) == IF api_key \in {PyNone, ""} THEN env ELSE api_key

\* The request requests.post sends.
HttpRequest(kind, data, api_key, signature) ==
    [url |-> IF kind = "payin" THEN "/messages/payins" ELSE "/messages/payouts",
     data |-> data, api_key |-> api_key, signature |-> signature]
NoRequest == [url |-> "", data |-> NoText, api_key |-> PyNone, signature |-> NoJws]
NoReply == HttpReply(0, NotJsonBody)

\* The messages sent: one payin and one payout message of one transaction.
OutMessages ==
    {[kind |-> "payin",
      obj |-> PayinMessage(
          MessageHeader(FinancialInstitution("TEST", PyNone), SHINKANSEN,
                        PyNone, PyNone, Fresh),
          <<PayinTransaction(
               [payin_type |-> "interactive_payment",
                interactive_payment_provider |-> PyNone,
                interactive_payment_success_redirect_url |-> "https://example.org/ok",
                interactive_payment_failure_redirect_url |-> PyNone,
                transaction_id |-> "tx-1", currency |-> "CLP", amount |-> "100",
                description |-> "", expiration_date |-> PyNone,
                debtor |-> NoneObj,
                creditor |-> PayinCreditor("Fictional Company", SamplePersonId,
                                           SampleBank, "4242", "current_account",
                                           "c@example.org")],
               Fresh.tx[1])>>)],
     [kind |-> "payout",
      obj |-> PayoutMessage(
          PayoutMessageHeader(FinancialInstitution("TEST", PyNone), SHINKANSEN,
                              PyNone, PyNone, Fresh),
          <<PayoutTransaction(
               [currency |-> "CLP", amount |-> "100", description |-> "Test payment",
                debtor |-> PayoutDebtor("Fictional Company", SamplePersonId,
                                        SampleBank, "4242", "current_account",
                                        "c@example.org"),
                creditor |-> PayoutCreditor("Jane", SamplePersonId, SampleBank,
                                            "1717", "current_account",
                                            "j@example.org"),
                execution_date |-> PyNone, transaction_id |-> "tx-1"],
               Fresh.tx[1], Fresh.now)>>)]}

\* The transactions and the errors a reply's body lists.
ReplyTransactions ==
    {[transaction_id |-> t, shinkansen_transaction_id |-> s] :
        t \in {"tx-1", "tx-2"}, s \in {"sh-1", "sh-2"}}
    \cup {[transaction_id |-> t, shinkansen_transaction_id |-> "sh-1",
           interactive_payment_url |-> "https://pay.example.org/1"] :
            t \in {"tx-1", "tx-2"}}
ReplyErrors ==
    {[error_code |-> c, error_message |-> "Invalid"] : c \in {"E1", "E2"}}
UpToTwo(S) == {<<>>} \cup {<<a>> : a \in S} \cup {<<a, b>> : a \in S, b \in S}

\* The replies of the server: success, conflict, bad request and server
\* error, each with a body that lists transactions, lists errors, or is no
\* JSON.
HttpReplies ==
    {HttpReply(c, b) :
        c \in {200, 409, 400, 500},
        b \in {NotJsonBody}
              \cup {JsonBody([transactions |-> l]) : l \in UpToTwo(ReplyTransactions)}
              \cup {JsonBody([errors |-> l]) : l \in UpToTwo(ReplyErrors)}}

\* A signature string the caller of send got elsewhere.
CallerSignature == <<JunkSegment, EmptySegment, JunkSegment>>

\* A message is built by the caller.
OutBuild ==
    /\ pc = "start"
    /\ \E m \in OutMessages :
          outbound' = [k |-> "out", kind |-> m.kind, obj |-> m.obj, changed |-> FALSE,
                       via |-> "none", signed |-> NoText, signOut |-> NoSign.out,
                       request |-> NoRequest, reply |-> NoReply, out |-> NoParsed]
    /\ pc' = "out_built"
    /\ UNCHANGED <<jwsVars, msgVars, compared, calls>>

\* sign_and_send, first statement: the signature over self.as_json().
OutSignature ==
    /\ pc = "out_built"
    /\ \E key \in Keys, certificate \in Certs :
          LET payload == Message_as_json(outbound.kind, outbound.obj)
              s == sign(payload, key, certificate)
          IN /\ outbound' = [outbound EXCEPT !.via = "sign_and_send",
                                             !.signed = payload, !.signOut = s]
             /\ pc' = IF s.err = NoError THEN "out_signed" ELSE "out_raised"
    /\ UNCHANGED <<jwsVars, msgVars, compared, calls>>

\* Another thread that holds the message sets one of its attributes while
\* sign_and_send is between its two statements.
OutSetAttr ==
    /\ pc = "out_signed"
    /\ ~outbound.changed
    /\ outbound' = [outbound EXCEPT !.obj.transactions[1].amount = "999",
                                    !.changed = TRUE]
    /\ UNCHANGED <<pc, jwsVars, msgVars, compared, calls>>

\* send(signature, api_key, base_url), called by sign_and_send or by the
\* caller: the api key, the post of self.as_json(), and from_http_response.
OutSend ==
    /\ pc \in {"out_built", "out_signed"}
    /\ \E api_key \in {PyNone, "apikey123"}, env \in {PyNone, "envkey"} :
          LET key == ApiKey(api_key, env)
              signature == IF pc = "out_signed" THEN outbound.signOut.value
                           ELSE CallerSignature
              via == IF pc = "out_signed" THEN "sign_and_send" ELSE "send"
          IN IF key = PyNone
             THEN outbound' = [outbound EXCEPT !.via = via,
                                  !.out = Raised(ShinkansenExceptionBase)]
             ELSE \E response \in HttpReplies :
                     outbound' = [outbound EXCEPT
                         !.via = via,
                         !.request = HttpRequest(outbound.kind,
                                         Message_as_json(outbound.kind, outbound.obj),
                                         key, signature),
                         !.reply = response,
                         !.out = IF outbound.kind = "payin"
                                 THEN PayinHttpResponse_from_http_response(response)
                                 ELSE PayoutHttpResponse_from_http_response(response)]
    /\ pc' = "out_done"
    /\ UNCHANGED <<jwsVars, msgVars, compared, calls>>

OutNext == OutBuild \/ OutSignature \/ OutSetAttr \/ OutSend

OutSpec == Init /\ [][OutNext]_vars

(***************************************************************************)
(* Calls in progress in two threads of one process.  A call works on its   *)
(* arguments and its local variables; what the modules hold at top level   *)
(* is shared by the threads.  A thread can be suspended between any two     *)
(* statements.                                                             *)
(***************************************************************************)
Threads == {1, 2}

\* What the modules hold at top level that is not a function or a class
\* definition: the registry of response classes.  jws.py has no module-level
\* object; `scratch` is the place one would take.
ModuleState == [registry |-> _transaction_type_to_class, scratch |-> NoObject]

FirstStatement(op) ==
    CASE op = "sign" -> "_cert_and_key_match"
      [] op \in {"verify_detached", "ResponseMessage.verify"} -> "deserialize"
      [] op = "as_json" -> "dumps"

\* The frame of a call: its arguments as they are now and as they were
\* given, the statement it is at, its local variables and its outcome.
NewFrame(call) ==
    [op |-> call.op, args |-> call.args, given |-> call.args,
     at |-> FirstStatement(call.op), overlapped |-> FALSE,
     jws |-> NoObject, x5c |-> JunkSegment, der |-> JunkDer, certificate |-> NoCert,
     out |-> [err |-> NoError, value |-> NoJws]]

Raise(frame, err) == [frame EXCEPT !.at = "done", !.out.err = err]
Return(frame, value) == [frame EXCEPT !.at = "done", !.out.value = value]

\* One statement of sign.
sign_step(frame, shared) ==
    LET a == frame.args IN
    [shared |-> shared,
     frame |->
       CASE frame.at = "_cert_and_key_match" ->
              IF ~_cert_and_key_match(a.certificate, a.key)
              THEN Raise(frame, KeyMismatch)
              ELSE [frame EXCEPT !.at = "add_signature"]
         [] frame.at = "add_signature" ->
              LET parsed_jws ==
                      JWS_add_signature(a.payload, a.key,
                          Header("PS256", TRUE, <<_b64der(a.certificate)>>))
              IN Return(frame, <<parsed_jws.protected, EmptySegment,
                                 parsed_jws.signature>>)]

\* verify_detached with its JWS object kept at module level instead of in a
\* local variable.
verify_detached_step_module_jws(frame, shared) ==
    LET a == frame.args
        direct == frame.op = "verify_detached"
        payload == IF direct THEN a.payload ELSE a.self.original_json
        whitelist == IF direct THEN a.certificate_whitelist ELSE a.sender_certificates
        jws == shared.scratch
    IN
    CASE frame.at = "deserialize" ->
           LET d == JWS_deserialize(a.detached_jws) IN
           IF d.err # NoError
           THEN [shared |-> shared, frame |-> Raise(frame, d.err)]
           ELSE [shared |-> [shared EXCEPT !.scratch = d.obj],
                 frame |-> [frame EXCEPT !.at = "_x5c_first"]]
      [] frame.at = "_x5c_first" ->
           LET x == _x5c_first(JWS_jose_header(jws)) IN
           [shared |-> shared,
            frame |-> IF x.err # NoError THEN Raise(frame, x.err)
                      ELSE [frame EXCEPT !.x5c = x.val, !.at = "b64decode"]]
      [] frame.at = "b64decode" ->
           LET der == b64decode(frame.x5c) IN
           [shared |-> shared,
            frame |-> IF der.err # NoError THEN Raise(frame, der.err)
                      ELSE [frame EXCEPT !.der = der.val,
                                         !.at = "load_der_x509_certificate"]]
      [] frame.at = "load_der_x509_certificate" ->
           LET certificate == load_der_x509_certificate(frame.der) IN
           [shared |-> shared,
            frame |-> IF certificate.err # NoError THEN Raise(frame, certificate.err)
                      ELSE [frame EXCEPT !.certificate = certificate.val,
                                         !.at = "verify"]]
      [] frame.at = "verify" ->
           LET v == JWS_verify(jws, frame.certificate.pub, "PS256", payload) IN
           [shared |-> shared,
            frame |-> IF v # NoError THEN Raise(frame, v)
                      ELSE [frame EXCEPT !.at = "whitelist"]]
      [] frame.at = "whitelist" ->
           [shared |-> shared,
            frame |-> IF NotInWhitelist(frame.der, whitelist)
                      THEN Raise(frame, CertificateNotWhitelisted)
                      ELSE IF direct THEN Return(frame, NoJws)
                      ELSE [frame EXCEPT !.at = "sender"]]
      [] frame.at = "sender" ->
           [shared |-> shared,
            frame |-> IF FinancialInstitution_ne(a.self.header.sender, a.sender)
                      THEN Raise(frame, UnexpectedSender)
                      ELSE [frame EXCEPT !.at = "receiver"]]
      [] frame.at = "receiver" ->
           [shared |-> shared,
            frame |-> IF FinancialInstitution_ne(a.self.header.receiver, a.receiver)
                      THEN Raise(frame, UnexpectedReceiver)
                      ELSE Return(frame, NoJws)]

\* One statement of verify_detached, called directly or by
\* ResponseMessage.verify (which passes self.original_json and, after it
\* returned, compares the sender and the receiver).
verify_detached_step(frame, shared) ==
    LET a == frame.args
        direct == frame.op = "verify_detached"
        payload == IF direct THEN a.payload ELSE a.self.original_json
        whitelist == IF direct THEN a.certificate_whitelist ELSE a.sender_certificates
        jws == frame.jws
    IN
    CASE frame.at = "deserialize" ->
           LET d == JWS_deserialize(a.detached_jws) IN
           IF d.err # NoError
           THEN [shared |-> shared, frame |-> Raise(frame, d.err)]
           ELSE [shared |-> shared,
                 frame |-> [frame EXCEPT !.jws = d.obj, !.at = "_x5c_first"]]
      [] frame.at = "_x5c_first" ->
           LET x == _x5c_first(JWS_jose_header(jws)) IN
           [shared |-> shared,
            frame |-> IF x.err # NoError THEN Raise(frame, x.err)
                      ELSE [frame EXCEPT !.x5c = x.val, !.at = "b64decode"]]
      [] frame.at = "b64decode" ->
           LET der == b64decode(frame.x5c) IN
           [shared |-> shared,
            frame |-> IF der.err # NoError THEN Raise(frame, der.err)
                      ELSE [frame EXCEPT !.der = der.val,
                                         !.at = "load_der_x509_certificate"]]
      [] frame.at = "load_der_x509_certificate" ->
           LET certificate == load_der_x509_certificate(frame.der) IN
           [shared |-> shared,
            frame |-> IF certificate.err # NoError THEN Raise(frame, certificate.err)
                      ELSE [frame EXCEPT !.certificate = certificate.val,
                                         !.at = "verify"]]
      [] frame.at = "verify" ->
           LET v == JWS_verify(jws, frame.certificate.pub, "PS256", payload) IN
           [shared |-> shared,
            frame |-> IF v # NoError THEN Raise(frame, v)
                      ELSE [frame EXCEPT !.at = "whitelist"]]
      [] frame.at = "whitelist" ->
           [shared |-> shared,
            frame |-> IF NotInWhitelist(frame.der, whitelist)
                      THEN Raise(frame, CertificateNotWhitelisted)
                      ELSE IF direct THEN Return(frame, NoJws)
                      ELSE [frame EXCEPT !.at = "sender"]]
      [] frame.at = "sender" ->
           [shared |-> shared,
            frame |-> IF FinancialInstitution_ne(a.self.header.sender, a.sender)
                      THEN Raise(frame, UnexpectedSender)
                      ELSE [frame EXCEPT !.at = "receiver"]]
      [] frame.at = "receiver" ->
           [shared |-> shared,
            frame |-> IF FinancialInstitution_ne(a.self.header.receiver, a.receiver)
                      THEN Raise(frame, UnexpectedReceiver)
                      ELSE Return(frame, NoJws)]

\* The statement of as_json.
as_json_step(frame, shared) ==
    [shared |-> shared,
     frame |-> Return(frame,
                 IF frame.args.kind = "response"
                 THEN ResponseMessage_as_json(frame.args.self)
                 ELSE Message_as_json(frame.args.kind, frame.args.self))]

\* The calls a thread makes.
ThrCertificate == [pub |-> 1, serial |-> 1]
ThrResponseText ==
    JsonText([document |->
        [header |-> [sender |-> [fin_id |-> "SHINKANSEN", fin_id_schema |-> PyNone],
                     receiver |-> [fin_id |-> "TAMAGOTCHI", fin_id_schema |-> PyNone],
                     message_id |-> "8a608962",
                     creation_date |-> "2022-10-25T19:10:54Z"],
         responses |-> <<SampleResponse>>]])
ThrSignatures ==
    {sign("test", k, [pub |-> k, serial |-> 1]).value : k \in Keys}
    \cup {<<JunkSegment, EmptySegment, JunkSegment>>}
ThrCalls ==
    {[op |-> "sign",
      args |-> [payload |-> "test", key |-> k, certificate |-> ThrCertificate]] :
        k \in Keys}
    \cup {[op |-> "verify_detached",
           args |-> [payload |-> p, detached_jws |-> j, certificate_whitelist |-> w]] :
            p \in Payloads, j \in ThrSignatures, w \in {<<>>, <<ThrCertificate>>}}
    \cup {[op |-> "ResponseMessage.verify",
           args |-> [self |-> ResponseMessage_from_json(ThrResponseText, Fresh).val,
                     detached_jws |-> sign(ThrResponseText, 1, ThrCertificate).value,
                     sender_certificates |-> <<ThrCertificate>>,
                     sender |-> FinancialInstitution(s, PyNone),
                     receiver |-> FinancialInstitution(r, PyNone)]] :
            s \in FinIds, r \in FinIds}
    \cup {[op |-> "as_json", args |-> [kind |-> m.kind, self |-> m.obj]] :
            m \in OutMessages}
    \cup {[op |-> "as_json",
           args |-> [kind |-> "response",
                     self |-> ResponseMessage_from_json(ThrResponseText, Fresh).val]]}

\* The other thread is between two statements of its call.
MidCall(frame) == frame.at \notin {FirstStatement(frame.op), "done"}

\* Both threads are given their calls.
ThrStart ==
    /\ pc = "start"
    /\ \E c \in [Threads -> ThrCalls] :
          calls' = [shared |-> ModuleState,
                    frame |-> [t \in Threads |-> NewFrame(c[t])]]
    /\ pc' = "running"
    /\ UNCHANGED <<jwsVars, msgVars, compared, outbound>>

\* Thread t runs the next statement of its call.
ThrRun(t, ops, r) ==
    /\ pc = "running"
    /\ calls.frame[t].op \in ops
    /\ calls.frame[t].at # "done"
    /\ calls' = [shared |-> r.shared,
                 frame |-> [calls.frame EXCEPT
                     ![t] = [r.frame EXCEPT !.overlapped =
                                @ \/ \E u \in Threads \ {t} : MidCall(calls.frame[u])]]]
    /\ UNCHANGED <<pc, jwsVars, msgVars, compared, outbound>>

ThrSignStep ==
    \E t \in Threads :
        ThrRun(t, {"sign"}, sign_step(calls.frame[t], calls.shared))

ThrVerifyStep ==
    \E t \in Threads :
        ThrRun(t, {"verify_detached", "ResponseMessage.verify"},
               verify_detached_step(calls.frame[t], calls.shared))

ThrAsJsonStep ==
    \E t \in Threads :
        ThrRun(t, {"as_json"}, as_json_step(calls.frame[t], calls.shared))

ThrNext == ThrStart \/ ThrSignStep \/ ThrVerifyStep \/ ThrAsJsonStep

ThrSpec == Init /\ [][ThrNext]_vars

(***************************************************************************)
(* What the claims speak of, stated on the call's arguments alone.          *)
(***************************************************************************)
Verified == pc = "verified"
Outcome == verifyCall.out.err
Steps == verifyCall.out.steps
VerifyOrder == <<"deserialize", "_x5c_first", "b64decode",
                 "load_der_x509_certificate", "verify", "whitelist">>
IsPrefix(s, t) == Len(s) <= Len(t) /\ \A i \in 1..Len(s) : s[i] = t[i]
Last(s) == s[Len(s)]
InSeq(x, s) == \E i \in 1..Len(s) : s[i] = x

CertBytes(c) == [k |-> "cert", pub |-> c.pub, serial |-> c.serial]

\* The string has the compact detached structure and its segments decode.
WellFormed(j) ==
    /\ Len(j) = 3
    /\ j[1].form # "bad" /\ j[2].form # "bad" /\ j[3].form # "bad"
    /\ j[1].data # NotJson
\* Its protected header carries a non-empty x5c.
HasX5c(j) ==
    /\ WellFormed(j) /\ j[1].data # EmptyBytes
    /\ j[1].data.has_x5c /\ j[1].data.x5c # <<>>
\* Certificate c is the first of x5c and the signature is one under PS256 by
\* c's key over the protected header and payload p.
SignedBy(c, p, j) ==
    /\ HasX5c(j)
    /\ j[1].data.x5c[1].form # "bad"
    /\ j[1].data.x5c[1].data = CertBytes(c)
    /\ j[1].data.alg = "PS256"
    /\ j[3].data = [k |-> "sig", signer |-> c.pub, alg |-> "PS256",
                    input |-> [protected |-> [form |-> "canon", data |-> j[1].data],
                               payload |-> p]]
CryptoValid(p, j) == \E c \in Certs : SignedBy(c, p, j)
\* The first certificate of x5c is byte-equal to a certificate of the list.
FirstWhitelisted(j, wl) ==
    /\ HasX5c(j)
    /\ j[1].data.x5c[1].form # "bad"
    /\ \E i \in 1..Len(wl) : j[1].data.x5c[1].data = CertBytes(wl[i])

\* C1: for every payload and every key and certificate whose public keys
\* match, verify_detached(payload, sign(payload, key, cert), [cert]) raises
\* no error.
C1_SignThenVerifySucceeds ==
    (/\ Verified
     /\ wire.origin = "signed"
     /\ verifyCall.whitelist = <<signCall.certificate>>)
    => Outcome = NoError

C1_Witness ==
    /\ Verified
    /\ wire.origin = "signed"
    /\ wire.payload = signCall.payload
    /\ wire.jws = signCall.out.value
    /\ verifyCall.whitelist = <<signCall.certificate>>
    /\ Outcome = NoError

\* C2: verify_detached succeeds only if the signature verifies under PS256
\* against the key of the first certificate of x5c for the supplied payload
\* and that certificate's DER bytes equal those of a certificate of the
\* whitelist; so never with an empty whitelist, and never on account of a
\* whitelisted certificate that is in x5c at another position only.
C2_SuccessOnlyIfFirstCertVerifiesAndIsWhitelisted ==
    (Verified /\ Outcome = NoError)
    => /\ CryptoValid(wire.payload, wire.jws)
       /\ FirstWhitelisted(wire.jws, verifyCall.whitelist)
       /\ verifyCall.whitelist # <<>>

\* A success on a string whose x5c holds two certificates.
C2_Witness ==
    /\ Verified
    /\ Outcome = NoError
    /\ Len(wire.jws[1].data.x5c) = 2
    /\ wire.jws[1].data.x5c[2] # wire.jws[1].data.x5c[1]

\* C3: for every key and certificate whose public keys do not match, sign
\* fails with KeyMismatch, before any signing step, and returns no string.
C3_MismatchFailsBeforeSigning ==
    (pc # "start" /\ signCall # NoSign
     /\ signCall.certificate.pub # signCall.key)
    => /\ signCall.out.err = KeyMismatch
       /\ signCall.out.value = NoJws
       /\ signCall.out.steps = <<"_cert_and_key_match">>

C3_Witness ==
    /\ pc = "signed"
    /\ signCall.certificate.pub # signCall.key
    /\ signCall.out.err = KeyMismatch

\* C4: if the payload given to verify_detached differs from the payload that
\* was signed, verify_detached fails with the error the jws module exposes
\* under the name InvalidSignature, also when the signer's certificate is in
\* the whitelist.
C4_ChangedPayloadRaisesJwsInvalidSignature ==
    (Verified /\ wire.origin = "payload_changed")
    => Outcome = JwsModuleAttr("InvalidSignature")

\* The signature error the code raises on a changed payload or signature.
SignatureError == "jwcrypto.jws.InvalidJWSSignature"
MutationClasses == {"separator", "segment_split", "protected_same_bytes",
                    "protected_undecodable", "protected_not_json",
                    "protected_alg", "protected_x5c", "signature_same_bytes",
                    "signature_undecodable", "signature_bytes"}

C6_ValidButNotWhitelisted ==
    (/\ Verified
     /\ CryptoValid(wire.payload, wire.jws)
     /\ ~FirstWhitelisted(wire.jws, verifyCall.whitelist))
    => Outcome = CertificateNotWhitelisted

\* The whitelist holds another certificate of the signer's key.
C6_Witness ==
    /\ Verified
    /\ wire.origin = "signed"
    /\ Len(verifyCall.whitelist) = 1
    /\ verifyCall.whitelist[1].pub = signCall.certificate.pub
    /\ verifyCall.whitelist[1] # signCall.certificate
    /\ Outcome = CertificateNotWhitelisted

\* C7: verify_detached checks structure, then x5c, then the signature, then
\* the whitelist, and reports the first step that fails: an invalid signature
\* by a certificate that is not whitelisted fails with the signature step's
\* error, and the whitelist is consulted only after the signature verified.
C7_FixedOrderFirstFailureReported ==
    Verified =>
    LET j == wire.jws
        p == wire.payload
        wl == verifyCall.whitelist
    IN /\ Steps # <<>> /\ IsPrefix(Steps, VerifyOrder)
       /\ (Outcome # NoError) = (Len(Steps) < Len(VerifyOrder)
                                  \/ ~FirstWhitelisted(j, wl))
       /\ ~WellFormed(j) => Last(Steps) = "deserialize"
       /\ (WellFormed(j) /\ ~HasX5c(j)) => Last(Steps) = "_x5c_first"
       /\ (HasX5c(j) /\ ~CryptoValid(p, j))
              => /\ Last(Steps) \in {"b64decode", "load_der_x509_certificate", "verify"}
                 /\ Outcome \notin {NoError, CertificateNotWhitelisted}
       /\ InSeq("whitelist", Steps) = CryptoValid(p, j)
       /\ (Outcome = CertificateNotWhitelisted)
              = (CryptoValid(p, j) /\ ~FirstWhitelisted(j, wl))

\* A signature that is invalid and whose certificate is not whitelisted.
C7_Witness ==
    /\ Verified
    /\ HasX5c(wire.jws)
    /\ ~CryptoValid(wire.payload, wire.jws)
    /\ ~FirstWhitelisted(wire.jws, verifyCall.whitelist)
    /\ Last(Steps) = "verify"
    /\ Outcome = SignatureError

\* C8: a structurally malformed string (no ".." separator, or a protected
\* segment that cannot be decoded or parsed) makes verify_detached fail with
\* the library's own InvalidJWS, a ShinkansenException.
C8_MalformedRaisesInvalidJWS ==
    (Verified /\ ~WellFormed(wire.jws))
    => (Outcome = InvalidJWS /\ Outcome \in ShinkansenException)

\* C9: a well-formed string whose protected header has no x5c, or an empty
\* one, fails with InvalidJWS before the signature is verified and before
\* the whitelist is compared.
C9_MissingOrEmptyX5c ==
    (/\ Verified
     /\ WellFormed(wire.jws)
     /\ wire.jws[1].data # EmptyBytes
     /\ (~wire.jws[1].data.has_x5c \/ wire.jws[1].data.x5c = <<>>))
    => /\ Outcome = InvalidJWS
       /\ ~InSeq("verify", Steps)
       /\ ~InSeq("whitelist", Steps)

\* An x5c that is present and empty, under a signature that is otherwise
\* a signature by a whitelisted certificate's key.
C9_Witness ==
    /\ Verified
    /\ WellFormed(wire.jws)
    /\ wire.jws[1].data # EmptyBytes
    /\ wire.jws[1].data.has_x5c /\ wire.jws[1].data.x5c = <<>>
    /\ wire.jws[3].data # JunkSig
    /\ verifyCall.whitelist # <<>>
    /\ Outcome = InvalidJWS

\* The two parties have the same fin_id and the same fin_id_schema.
SameParty(a, b) == a.fin_id = b.fin_id /\ a.fin_id_schema = b.fin_id_schema

\* C10: ResponseMessage.verify with a valid signature by a whitelisted
\* certificate fails with UnexpectedSender whenever header.sender differs
\* from the expected sender in fin_id or in fin_id_schema.
C10_UnexpectedSender ==
    (/\ pc = "verified"
     /\ CryptoValid(wire.payload, wire.jws)
     /\ FirstWhitelisted(wire.jws, respCall.sender_certificates)
     /\ ~SameParty(message.header.sender, respCall.sender))
    => respCall.out.err = UnexpectedSender

\* The sender differs from the expected one in fin_id_schema alone.
C10_Witness ==
    /\ pc = "verified"
    /\ wire.origin = "signed"
    /\ respCall.sender_certificates = <<signCall.certificate>>
    /\ message.header.sender.fin_id = respCall.sender.fin_id
    /\ message.header.sender.fin_id_schema # respCall.sender.fin_id_schema
    /\ respCall.out.err = UnexpectedSender

\* The expected party is a FinancialInstitution with the fin_id and the
\* fin_id_schema of the party in the header.
MatchingParty(a, b) == b.k = "FinancialInstitution" /\ SameParty(a, b)

\* C11: ResponseMessage.verify with a valid signature by a whitelisted
\* certificate and the expected sender fails with UnexpectedReceiver whenever
\* header.receiver differs from the expected receiver, and ends without
\* error when the receiver is the expected one too.
C11_UnexpectedReceiverOrSuccess ==
    (/\ pc = "verified"
     /\ CryptoValid(wire.payload, wire.jws)
     /\ FirstWhitelisted(wire.jws, respCall.sender_certificates)
     /\ MatchingParty(message.header.sender, respCall.sender))
    => /\ ~SameParty(message.header.receiver, respCall.receiver)
            => respCall.out.err = UnexpectedReceiver
       /\ MatchingParty(message.header.receiver, respCall.receiver)
            => respCall.out.err = NoError

\* Signature, whitelist and sender are as expected and the receiver is not.
C11_Witness ==
    /\ pc = "verified"
    /\ wire.origin = "signed"
    /\ respCall.sender_certificates = <<signCall.certificate>>
    /\ MatchingParty(message.header.sender, respCall.sender)
    /\ message.header.receiver.fin_id # respCall.receiver.fin_id
    /\ respCall.out.err = UnexpectedReceiver

RespOrder == <<"verify_detached", "sender", "receiver">>

\* C12: ResponseMessage.verify checks signature and whitelist, then the
\* sender, then the receiver, and reports the first failure: UnexpectedSender
\* and UnexpectedReceiver are raised only for a signature that verifies under
\* a whitelisted certificate, a changed text or signature ends in the
\* signature error whatever the parties are, and a message with both parties
\* unexpected ends in UnexpectedSender.
C12_SignatureThenSenderThenReceiver ==
    pc = "verified" =>
      /\ IsPrefix(respCall.out.steps, RespOrder)
      /\ respCall.out.err \in {UnexpectedSender, UnexpectedReceiver}
           => /\ CryptoValid(wire.payload, wire.jws)
              /\ FirstWhitelisted(wire.jws, respCall.sender_certificates)
      /\ wire.origin \in {"payload_changed", "signature_bytes"}
           => /\ respCall.out.err = SignatureError
              /\ respCall.out.steps = <<"verify_detached">>
      /\ (/\ CryptoValid(wire.payload, wire.jws)
          /\ FirstWhitelisted(wire.jws, respCall.sender_certificates)
          /\ ~SameParty(message.header.sender, respCall.sender)
          /\ ~SameParty(message.header.receiver, respCall.receiver))
           => respCall.out.err = UnexpectedSender

\* A changed text with a wrong sender and a wrong receiver ends in the
\* signature error.
C12_Witness ==
    /\ pc = "verified"
    /\ wire.origin = "payload_changed"
    /\ respCall.sender_certificates = <<signCall.certificate>>
    /\ ~SameParty(message.header.sender, respCall.sender)
    /\ ~SameParty(message.header.receiver, respCall.receiver)
    /\ respCall.out.err = SignatureError

\* C13: ResponseMessage.from_json keeps the text it was given as
\* original_json, and ResponseMessage.verify hands exactly that text to
\* verify_detached as the payload, never the text as_json writes, whatever
\* was assigned to header or responses after parsing.
C13_VerifyUsesRetainedText ==
    /\ pc \in {"parsed", "changed", "verified"} => message.original_json = wire.payload
    /\ pc = "verified" => /\ respCall.out.payload = wire.payload
                          /\ respCall.out.payload # ResponseMessage_as_json(message)

\* A message whose sender was reassigned after parsing is verified against
\* the text that was received.
C13_Witness ==
    /\ pc = "verified"
    /\ wire.origin = "signed"
    /\ MessageHeader_dict(message.header) # json_loads(wire.payload).document.header
    /\ respCall.sender_certificates = <<signCall.certificate>>
    /\ respCall.out.payload = wire.payload
    /\ respCall.out.err = NoError

(***************************************************************************)
(* Messages and their JSON text.                                           *)
(***************************************************************************)
\* The document of the text written last.
WrittenDoc == json_loads(written).document

\* The dict j holds exactly those of the string attributes attrs of o that
\* are not None, each with its value.
StrAttrsKept(o, j, attrs) ==
    \A a \in attrs : /\ (a \in DOMAIN j) <=> (o[a] # PyNone)
                     /\ a \in DOMAIN j => j[a] = o[a]
\* The key a is in j exactly if the object attribute a of o is not None.
ObjAttrKept(o, j, a) == (a \in DOMAIN j) <=> (o[a] # NoneObj)

PersonIdWritten(o, j) ==
    /\ DOMAIN j \subseteq {"id_schema", "id"}
    /\ StrAttrsKept(o, j, {"id_schema", "id"})
FinancialInstitutionWritten(o, j) ==
    /\ DOMAIN j \subseteq {"fin_id", "fin_id_schema"}
    /\ StrAttrsKept(o, j, {"fin_id", "fin_id_schema"})
PartyWritten(o, j) ==
    /\ DOMAIN j \subseteq {"name", "identification", "financial_institution",
                          "account", "account_type", "email"}
    /\ StrAttrsKept(o, j, {"name", "account", "account_type", "email"})
    /\ ObjAttrKept(o, j, "identification")
    /\ "identification" \in DOMAIN j
         => PersonIdWritten(o.identification, j["identification"])
    /\ ObjAttrKept(o, j, "financial_institution")
    /\ "financial_institution" \in DOMAIN j
         => FinancialInstitutionWritten(o.financial_institution,
                                        j["financial_institution"])
PayinTransactionStrAttrs ==
    {"transaction_type", "payin_type", "interactive_payment_provider",
     "interactive_payment_success_redirect_url",
     "interactive_payment_failure_redirect_url", "transaction_id", "currency",
     "amount", "description", "expiration_date"}
PayinTransactionWritten(o, j) ==
    /\ DOMAIN j \subseteq PayinTransactionStrAttrs \cup {"debtor", "creditor"}
    /\ StrAttrsKept(o, j, PayinTransactionStrAttrs)
    /\ ObjAttrKept(o, j, "debtor")
    /\ "debtor" \in DOMAIN j => PartyWritten(o.debtor, j["debtor"])
    /\ ObjAttrKept(o, j, "creditor")
    /\ "creditor" \in DOMAIN j => PartyWritten(o.creditor, j["creditor"])
HeaderWritten(o, j) ==
    /\ DOMAIN j \subseteq {"sender", "receiver", "message_id", "creation_date"}
    /\ StrAttrsKept(o, j, {"message_id", "creation_date"})
    /\ ObjAttrKept(o, j, "sender")
    /\ "sender" \in DOMAIN j => FinancialInstitutionWritten(o.sender, j["sender"])
    /\ ObjAttrKept(o, j, "receiver")
    /\ "receiver" \in DOMAIN j => FinancialInstitutionWritten(o.receiver, j["receiver"])

\* C14: PayinMessage.as_json leaves out every attribute that is None, of the
\* message, the header, a transaction, a debtor, a creditor, an
\* identification and a financial institution, writes no null, and writes
\* every attribute that is set with its value, an empty string or an empty
\* list of transactions included.
C14_PayinAsJsonOmitsNone ==
    (pc = "serialized" /\ built.kind = "payin") =>
      /\ DOMAIN WrittenDoc \subseteq {"header", "transactions"}
      /\ ObjAttrKept(built.obj, WrittenDoc, "header")
      /\ "header" \in DOMAIN WrittenDoc
           => HeaderWritten(built.obj.header, WrittenDoc["header"])
      /\ "transactions" \in DOMAIN WrittenDoc
      /\ Len(WrittenDoc["transactions"]) = Len(built.obj.transactions)
      /\ \A i \in 1..Len(built.obj.transactions) :
            PayinTransactionWritten(built.obj.transactions[i],
                                    WrittenDoc["transactions"][i])

\* A payin whose header lost its creation_date and whose first transaction
\* has a debtor without financial institution: both keys are left out, the
\* empty description is written.
C14_Witness ==
    /\ pc = "serialized"
    /\ built.kind = "payin"
    /\ built.obj.header.creation_date = PyNone
    /\ "creation_date" \notin DOMAIN WrittenDoc["header"]
    /\ Len(built.obj.transactions) = 2
    /\ built.obj.transactions[1].debtor # NoneObj
    /\ built.obj.transactions[1].debtor.name = "Jane"
    /\ "financial_institution" \notin DOMAIN WrittenDoc["transactions"][1]["debtor"]
    /\ "expiration_date" \notin DOMAIN WrittenDoc["transactions"][1]
    /\ WrittenDoc["transactions"][1]["description"] = ""
    /\ "debtor" \notin DOMAIN WrittenDoc["transactions"][2]

\* C15: after a payout transaction's creditor.financial_institution is set
\* to None, PayoutMessage.as_json writes that creditor without the key
\* financial_institution.
C15_PayoutAsJsonOmitsNone ==
    (/\ pc = "serialized"
     /\ built.kind = "payout"
     /\ Len(built.obj.transactions) >= 1
     /\ built.obj.transactions[1].creditor # NoneObj
     /\ built.obj.transactions[1].creditor.financial_institution = NoneObj)
    => "financial_institution" \notin DOMAIN WrittenDoc["transactions"][1]["creditor"]

\* C16: the text of every message is an object with the one key document,
\* whose value has exactly the keys header and transactions (payin, payout)
\* or header and responses (response message), whether the response message
\* was built by the caller or came from from_json.
C16_EnvelopeShape ==
    /\ (pc = "serialized" /\ built.kind \in {"payin", "payout"}
        /\ built.obj.header # NoneObj)
         => /\ DOMAIN json_loads(written) = {"document"}
            /\ DOMAIN WrittenDoc = {"header", "transactions"}
    /\ ((pc = "serialized" /\ built.kind = "response") \/ pc = "reserialized")
         => /\ DOMAIN json_loads(written) = {"document"}
            /\ DOMAIN WrittenDoc = {"header", "responses"}

\* The attributes the constructors require are set: the creation_date of the
\* header and, in every transaction, the creditor's financial institution and
\* the debtor of a payout.
RequiredAttrsSet(m) ==
    /\ m.header.creation_date # PyNone
    /\ \A i \in 1..Len(m.transactions) :
          /\ m.transactions[i].creditor.financial_institution # NoneObj
          /\ m.k = "PayoutMessage" => m.transactions[i].debtor # NoneObj

\* C17: for every payin and payout message m, from_json(m.as_json()) is a
\* message whose header and transactions have the field values of m's, as
\* many transactions in the same order, also when optional attributes (a
\* payin's debtor, attributes of the debtor) are unset.
C17_RoundTrip ==
    (pc = "roundtrip" /\ RequiredAttrsSet(built.obj)) =>
      /\ loaded.err = NoError
      /\ loaded.val.header = built.obj.header
      /\ loaded.val.transactions = built.obj.transactions

\* C18 as claimed: a header built without message_id or creation_date gets a
\* fresh, non-empty one, and a message_id or creation_date that is given is
\* kept as it is; likewise the transaction_id of a payin or payout
\* transaction.
C18_SuppliedValueKept ==
    (pc = "built" /\ built.kind \in {"payin", "payout", "response"}) =>
      /\ IF built.args.message_id = PyNone
         THEN built.obj.header.message_id = Fresh.uuid
         ELSE built.obj.header.message_id = built.args.message_id
      /\ IF built.args.creation_date = PyNone
         THEN built.obj.header.creation_date = Fresh.now
         ELSE built.obj.header.creation_date = built.args.creation_date
      /\ built.kind \in {"payin", "payout"} =>
           \A i \in 1..Len(built.obj.transactions) :
              IF built.args.transactions[i].transaction_id = PyNone
              THEN built.obj.transactions[i].transaction_id = Fresh.tx[i]
              ELSE built.obj.transactions[i].transaction_id
                       = built.args.transactions[i].transaction_id

\* The value an id or date attribute gets from the argument given.
GivenOrFresh(given, fresh_value) ==
    IF given = PyNone \/ given = "" THEN fresh_value ELSE given

\* C18, amended: message_id, creation_date and transaction_id are kept when
\* the value given is a non-empty string; when it is absent or the empty
\* string the attribute gets a fresh non-empty value.
C18_NonEmptyValueKept ==
    (pc = "built" /\ built.kind \in {"payin", "payout", "response"}) =>
      /\ built.obj.header.message_id = GivenOrFresh(built.args.message_id, Fresh.uuid)
      /\ built.obj.header.creation_date
             = GivenOrFresh(built.args.creation_date, Fresh.now)
      /\ built.obj.header.message_id \notin {PyNone, ""}
      /\ built.obj.header.creation_date \notin {PyNone, ""}
      /\ built.kind \in {"payin", "payout"} =>
           \A i \in 1..Len(built.obj.transactions) :
              /\ built.obj.transactions[i].transaction_id
                     = GivenOrFresh(built.args.transactions[i].transaction_id,
                                    Fresh.tx[i])
              /\ built.obj.transactions[i].transaction_id \notin {PyNone, ""}

\* A payout header given the empty message_id and a creation_date: the first
\* is replaced, the second kept; its two transactions get different ids.
C18_Witness ==
    /\ pc = "built"
    /\ built.kind = "payout"
    /\ built.args.message_id = ""
    /\ built.obj.header.message_id = Fresh.uuid
    /\ built.args.creation_date = "2022-10-25T19:10:54Z"
    /\ built.obj.header.creation_date = "2022-10-25T19:10:54Z"
    /\ Len(built.obj.transactions) = 2
    /\ built.args.transactions[1].transaction_id = PyNone
    /\ built.args.transactions[2].transaction_id = "tx-1"
    /\ built.obj.transactions[1].transaction_id = Fresh.tx[1]
    /\ built.obj.transactions[2].transaction_id = "tx-1"

RequiredResponseKeys ==
    {"transaction_id", "shinkansen_transaction_id", "shinkansen_transaction_status",
     "shinkansen_transaction_message", "response_status", "response_message"}

\* C19: Response.from_json_dict on a response object whose transaction_type
\* is not registered returns a generic Response with the base fields of the
\* input, and ResponseMessage.from_json parses a text with such a response.
C19_UnknownTypeParses ==
    (/\ pc \in {"decoded", "received"}
     /\ RequiredResponseKeys \cup {"transaction_type", "response_id"}
            \subseteq DOMAIN built.args
     /\ built.args["response_id"] # PyNone
     /\ built.args["transaction_type"] \notin DOMAIN _transaction_type_to_class)
    => /\ loaded.err = NoError
       /\ pc = "decoded" =>
            /\ loaded.val.class = "Response"
            /\ \A f \in RequiredResponseKeys \cup {"response_id"} :
                  loaded.val[f] = built.args[f]
       /\ pc = "received" => Len(loaded.val.responses) = 1

\* C20 as claimed: Response.from_json_dict on a response object of the
\* registered type "payout" returns a PayoutResponse whose base fields are
\* the input's, and drops the fields it does not know without an error.
C20_RegisteredTypeKeepsFields ==
    (/\ pc = "decoded"
     /\ RequiredResponseKeys \cup {"transaction_type", "response_id"}
            \subseteq DOMAIN built.args
     /\ built.args["transaction_type"] = "payout")
    => /\ loaded.err = NoError
       /\ loaded.val.class = "PayoutResponse"
       /\ \A f \in RequiredResponseKeys \cup {"response_id", "transaction_type"} :
             loaded.val[f] = built.args[f]
       /\ "new_field" \notin DOMAIN loaded.val

\* C20, amended: the base fields are the input's, except that a response_id
\* that is null, empty or missing is replaced by a fresh id.
C20_RegisteredTypeKeepsFieldsButEmptyId ==
    (/\ pc = "decoded"
     /\ RequiredResponseKeys \cup {"transaction_type"} \subseteq DOMAIN built.args
     /\ built.args["transaction_type"] = "payout")
    => /\ loaded.err = NoError
       /\ loaded.val.class = "PayoutResponse"
       /\ \A f \in RequiredResponseKeys \cup {"transaction_type"} :
             loaded.val[f] = built.args[f]
       /\ loaded.val.response_id
              = GivenOrFresh(dict_get(built.args, "response_id"), FreshParse.uuid)
       /\ "new_field" \notin DOMAIN loaded.val

\* A payout response with an unknown field and a response_id.
C20_Witness ==
    /\ pc = "decoded"
    /\ "new_field" \in DOMAIN built.args
    /\ {"response_id", "transaction_type"} \subseteq DOMAIN built.args
    /\ built.args["response_id"] = "f7a29de9"
    /\ built.args["transaction_type"] = "payout"
    /\ loaded.err = NoError
    /\ loaded.val.class = "PayoutResponse"
    /\ loaded.val.response_id = "f7a29de9"

\* C21: equality of FinancialInstitution values is by fin_id and
\* fin_id_schema (an omitted fin_id_schema counting as "SHINKANSEN"), and of
\* PersonId values by id_schema and id; it is reflexive, symmetric and
\* transitive, equal values have equal hashes, and a value never equals one
\* of another type.
ValueTypes == {"FinancialInstitution", "PersonId"}
SameFields(a, b) ==
    /\ a.k = b.k
    /\ IF a.k = "FinancialInstitution"
       THEN a.fin_id = b.fin_id /\ a.fin_id_schema = b.fin_id_schema
       ELSE a.id_schema = b.id_schema /\ a.id = b.id
SchemaGiven(call) ==
    IF call.args[2] = PyNone THEN "SHINKANSEN" ELSE call.args[2]
C21_StructuralEquality ==
    pc = "compared" =>
      \A i, j, l \in 1..3 :
         LET a == compared.vals[i]
             b == compared.vals[j]
             eq == compared.eq
         IN /\ a.k \in ValueTypes => (eq[i][j] <=> SameFields(a, b))
            /\ (/\ compared.calls[i].class = "FinancialInstitution"
                /\ compared.calls[j].class = "FinancialInstitution")
               => (eq[i][j] <=>
                     /\ compared.calls[i].args[1] = compared.calls[j].args[1]
                     /\ SchemaGiven(compared.calls[i]) = SchemaGiven(compared.calls[j]))
            /\ a.k \in ValueTypes => eq[i][i]
            /\ eq[i][j] = eq[j][i]
            /\ (eq[i][j] /\ eq[j][l]) => eq[i][l]
            /\ (a.k \in ValueTypes /\ eq[i][j]) => compared.hash[i] = compared.hash[j]
            /\ (a.k \in ValueTypes /\ a.k # b.k) => (~eq[i][j] /\ ~eq[j][i])

\* Two FinancialInstitution values, one built without fin_id_schema and one
\* with "SHINKANSEN", compare equal, next to a value of another type with
\* the same content.
C21_Witness ==
    /\ pc = "compared"
    /\ compared.calls[1] = [class |-> "FinancialInstitution", args |-> <<"BANK", PyNone>>]
    /\ compared.calls[2] = [class |-> "FinancialInstitution",
                            args |-> <<"BANK", "SHINKANSEN">>]
    /\ compared.calls[3].class = "dict"
    /\ compared.eq[1][2]
    /\ ~compared.eq[1][3]

\* C22: from_http_response of a reply with a JSON body gives, for 200 and
\* 409, no errors and a transaction_ids map with the entry transaction_id ->
\* shinkansen_transaction_id for the transactions of the body (the last one
\* where two have the same id); for 400, an empty map and one error per
\* error of the body, in body order; and the reply's status code always.
RequestSent == pc = "out_done" /\ outbound.request # NoRequest
NoJsonOrOtherStatus ==
    \/ outbound.reply.status_code = 400 /\ outbound.reply.body.form # "json"
    \/ outbound.reply.status_code \notin {200, 409, 400}
C23_PayinFallback ==
    (RequestSent /\ outbound.kind = "payin" /\ NoJsonOrOtherStatus) =>
       /\ outbound.out.err = NoError
       /\ outbound.out.val.k = "PayinHttpResponse"
       /\ outbound.out.val.http_status_code = outbound.reply.status_code
       /\ DOMAIN outbound.out.val.transaction_ids = {}
       /\ DOMAIN outbound.out.val.interactive_payment_urls = {}
       /\ outbound.out.val.errors = <<>>

\* A payin message sent is answered 400 with a body that is no JSON.
C23_Witness ==
    /\ RequestSent
    /\ outbound.kind = "payin"
    /\ outbound.reply.status_code = 400
    /\ outbound.reply.body.form # "json"
    /\ outbound.out.err = NoError

\* C24: PayoutMessage.send answered 400 with a body that is no JSON returns
\* a PayoutHttpResponse with status code 400, no transaction ids and no
\* errors, and raises nothing.
C24_PayoutFallback ==
    (/\ RequestSent
     /\ outbound.kind = "payout"
     /\ outbound.reply.status_code = 400
     /\ outbound.reply.body.form # "json") =>
       /\ outbound.out.err = NoError
       /\ outbound.out.val.k = "PayoutHttpResponse"
       /\ outbound.out.val.http_status_code = 400
       /\ DOMAIN outbound.out.val.transaction_ids = {}
       /\ outbound.out.val.errors = <<>>

\* C28: what sign_and_send posts is the text its signature was computed
\* over.
C28_PostedIsSigned ==
    (RequestSent /\ outbound.via = "sign_and_send") =>
       outbound.request.data = outbound.signed

\* C25: PayoutMessage.from_json of a transaction whose creditor has no
\* financial_institution entry succeeds, the creditor's
\* financial_institution is None, and the other fields of the transaction
\* are the input's.
C25_CreditorWithoutFinancialInstitution ==
    (/\ pc = "reparsed"
     /\ built.kind = "payout"
     /\ written.lacks = "creditor.financial_institution"
     /\ RequiredAttrsSet(built.obj)) =>
       /\ loaded.err = NoError
       /\ loaded.val.transactions[1].creditor.financial_institution = NoneObj
       /\ [loaded.val.transactions[1] EXCEPT !.creditor.financial_institution = NoneObj]
            = [built.obj.transactions[1] EXCEPT
                  !.creditor.financial_institution = NoneObj]

\* C29: from_json of PayinMessage, PayoutMessage and ResponseMessage fails
\* with an error, and returns no message, for a text that is no JSON or that
\* lacks the document, the header, the sender, the receiver, the message_id,
\* the creation_date or the transactions (responses).
C29_MalformedInputFails ==
    (pc = "reparsed" /\ written.lacks \in EnvelopeEntries(built.kind)) =>
       /\ loaded.err # NoError
       /\ loaded.val \in {NoneObj, NoParsedMessage}

\* A payin text without its transactions, a payout text without message_id
\* and a response text that is no JSON were each refused.
C29_Witness ==
    /\ pc = "reparsed"
    /\ loaded.err \in {KeyError, JsonDecodeError}
    /\ \/ built.kind = "payin" /\ written.lacks = "transactions"
       \/ built.kind = "payout" /\ written.lacks = "message_id"
       \/ built.kind = "response_text" /\ written.lacks = "json"

\* C26: a PayoutTransaction can be constructed with the routing fields
\* tracking_key, reference_number, payment_purpose_category, payment_rail,
\* execution_mode and po_connection, and as_json writes each of them into the
\* transaction object with the value given.
C26_RoutingFieldsAccepted ==
    (/\ pc = "constructed"
     /\ PayoutTransactionRequired \subseteq DOMAIN built.args
     /\ DOMAIN built.args \subseteq
            PayoutTransactionRequired \cup PayoutTransactionOptional \cup RoutingFields) =>
       /\ loaded.err = NoError
       /\ \A f \in RoutingFields \cap DOMAIN built.args :
             /\ f \in DOMAIN PayoutTransaction_dict(loaded.val)
             /\ PayoutTransaction_dict(loaded.val)[f] = built.args[f]

\* C30: verify_detached never accepts a detached signature whose protected
\* header names an algorithm other than PS256, and every signature sign
\* returns has the protected header alg PS256, b64 false, crit ["b64"] and an
\* x5c of one entry, the base64 of the DER bytes of the certificate given.
C30_OnlyPS256 ==
    /\ (/\ Verified
        /\ WellFormed(wire.jws)
        /\ wire.jws[1].data # EmptyBytes
        /\ wire.jws[1].data.alg # "PS256") => Outcome # NoError
    /\ (signCall.out.err = NoError /\ signCall.out.value # NoJws) =>
          LET protected == signCall.out.value[1] IN
          /\ protected.form = "canon"
          /\ protected.data.alg = "PS256"
          /\ protected.data.b64 = FALSE
          /\ protected.data.crit = <<"b64">>
          /\ protected.data.has_x5c
          /\ Len(protected.data.x5c) = 1
          /\ protected.data.x5c[1] = [form |-> "canon",
                                      data |-> CertBytes(signCall.certificate)]

\* A signature that is a correct RS256 signature, by the key of a
\* whitelisted certificate, under a protected header that names RS256, was
\* refused.
C30_Witness ==
    /\ Verified
    /\ HasX5c(wire.jws)
    /\ wire.jws[1].data.alg = "RS256"
    /\ \E c \in Certs :
          /\ wire.jws[1].data.x5c[1] = [form |-> "canon", data |-> CertBytes(c)]
          /\ InSeq(c, verifyCall.whitelist)
          /\ wire.jws[3].form # "bad"
          /\ wire.jws[3].data =
                 [k |-> "sig", signer |-> c.pub, alg |-> "RS256",
                  input |-> [protected |-> [form |-> "canon", data |-> wire.jws[1].data],
                             payload |-> wire.payload]]
    /\ Outcome = InvalidJWSSignature

\* The outcome of a call that runs from its first statement to its last
\* with no other call in between.
Alone(op, args) ==
    CASE op = "sign" ->
           LET s == sign(args.payload, args.key, args.certificate)
           IN [err |-> s.err, value |-> s.value]
      [] op = "verify_detached" ->
           [err |-> verify_detached(args.payload, args.detached_jws,
                                    args.certificate_whitelist).err,
            value |-> NoJws]
      [] op = "ResponseMessage.verify" ->
           [err |-> ResponseMessage_verify(args.self, args.detached_jws,
                        args.sender_certificates, args.sender, args.receiver).err,
            value |-> NoJws]
      [] op = "as_json" ->
           [err |-> NoError,
            value |-> IF args.kind = "response"
                      THEN ResponseMessage_as_json(args.self)
                      ELSE Message_as_json(args.kind, args.self)]

\* C27: while two threads run sign, verify_detached, ResponseMessage.verify
\* and as_json calls statement by statement in any interleaving, what the
\* modules hold at top level stays as it was, every call's arguments stay as
\* they were given, and a call that has finished, with a value or with an
\* error, has the outcome it has when it runs alone.
C27_InterleavingIndependent ==
    pc = "running" =>
        /\ calls.shared = ModuleState
        /\ \A t \in Threads :
              /\ calls.frame[t].args = calls.frame[t].given
              /\ calls.frame[t].at = "done" =>
                    calls.frame[t].out
                        = Alone(calls.frame[t].op, calls.frame[t].given)

\* Two verifications of different signatures have finished, each having run
\* statements while the other was between two of its own, one accepting and
\* one raising.
C27_Witness ==
    /\ pc = "running"
    /\ \A t \in Threads :
          /\ calls.frame[t].op \in {"verify_detached", "ResponseMessage.verify"}
          /\ calls.frame[t].at = "done"
          /\ calls.frame[t].overlapped
    /\ calls.frame[1].args.detached_jws # calls.frame[2].args.detached_jws
    /\ calls.frame[1].out.err = NoError
    /\ calls.frame[2].out.err # NoError

====
